---- MODULE Spec2Model ----
(***************************************************************************)
(* Model of processData (src/src/utils/dataProcessor.ts): the staged       *)
(* record-linkage and metrics pipeline over intake ("new"), attendance     *)
(* ("bookings") and sales records.                                         *)
(*                                                                         *)
(* Text values whose content the code inspects (class labels, membership   *)
(* labels, categories, items, currency strings) are sequences of           *)
(* one-character strings, so that toLowerCase, includes and the regular    *)
(* expressions of the code are computed and not assumed.  Values the code  *)
(* only compares for equality (emails, staff names, locations, the         *)
(* YES/NO flags) are plain strings.  A canonical date is the number        *)
(* month*100+day of one calendar year, 0 standing for the empty string.    *)
(* Name and phone fields, tax, seller and the weekly revenue series do not *)
(* influence any count or rate and are left out.                           *)
(***************************************************************************)
EXTENDS Integers, Sequences, FiniteSets, TLC

(***************************************************************************)
(* String literals of the source.                                          *)
(***************************************************************************)
K_friends == <<"f","r","i","e","n","d","s">>
K_family == <<"f","a","m","i","l","y">>
K_staff == <<"s","t","a","f","f">>
K_2for1 == <<"2"," ","f","o","r"," ","1">>
K_moneyCredits == <<"m","o","n","e","y","-","c","r","e","d","i","t","s">>
K_retail == <<"r","e","t","a","i","l">>
K_product == <<"p","r","o","d","u","c","t">>
K_StudioOpenBarreClass == <<"S","t","u","d","i","o"," ","O","p","e","n"," ","B","a","r","r","e"," ","C","l","a","s","s">>
K_Newcomers2For1 == <<"N","e","w","c","o","m","e","r","s"," ","2"," ","F","o","r"," ","1">>
K_ReferralClass == <<"S","t","u","d","i","o"," ","C","o","m","p","l","i","m","e","n","t","a","r","y"," ","R","e","f","e","r","r","a","l"," ","C","l","a","s","s">>
K_hosted == <<"h","o","s","t","e","d">>
K_x == <<"x">>
K_p57 == <<"p","5","7">>
K_physique == <<"p","h","y","s","i","q","u","e">>
K_weword == <<"w","e","w","o","r","d">>
K_rugby == <<"r","u","g","b","y">>
K_outdoor == <<"o","u","t","d","o","o","r">>
K_birthday == <<"b","i","r","t","h","d","a","y">>
K_bridal == <<"b","r","i","d","a","l">>
K_shower == <<"s","h","o","w","e","r">>
K_signup == <<"s","i","g","n","-","u","p">>
K_link == <<"l","i","n","k">>
K_influencer == <<"i","n","f","l","u","e","n","c","e","r">>
K_twain == <<"t","w","a","i","n">>
K_ooo == <<"o","o","o">>
K_lrs == <<"l","r","s">>
K_complimentary == <<"c","o","m","p","l","i","m","e","n","t","a","r","y">>

(***************************************************************************)
(* Input values the runs are drawn from.                                   *)
(***************************************************************************)
L_Barre57 == <<"B","a","r","r","e"," ","5","7">>
L_Barre57Padded == <<" ","B","a","r","r","e"," ","5","7"," ">>
L_2For1Intro == <<"2"," ","F","o","r"," ","1"," ","I","n","t","r","o">>
L_NEWCOMERS2FOR1 == <<"N","E","W","C","O","M","E","R","S"," ","2"," ","F","O","R"," ","1">>
L_HostedClass == <<"H","o","s","t","e","d"," ","C","l","a","s","s">>
L_StaffClass == <<"S","t","a","f","f"," ","C","l","a","s","s">>
M_SingleClass == <<"S","i","n","g","l","e"," ","C","l","a","s","s">>
M_FriendsFamily == <<"F","r","i","e","n","d","s"," ","a","n","d"," ","F","a","m","i","l","y">>
M_InfluencerSignUp == <<"I","n","f","l","u","e","n","c","e","r"," ","S","i","g","n","-","U","p">>
C_Membership == <<"M","e","m","b","e","r","s","h","i","p">>
C_RETAIL == <<"R","E","T","A","I","L"," ","G","o","o","d","s">>
C_MoneyCredits == <<"M","o","n","e","y","-","C","r","e","d","i","t","s">>
C_MoneyCredit == <<"M","o","n","e","y","-","C","r","e","d","i","t">>
C_Product == <<"P","r","o","d","u","c","t">>
I_10ClassPack == <<"1","0","-","C","l","a","s","s"," ","P","a","c","k">>
I_Unlimited == <<"U","n","l","i","m","i","t","e","d"," ","M","o","n","t","h">>
I_2For1 == <<"N","e","w","c","o","m","e","r","s"," ","2"," ","F","O","R"," ","1">>
V_1200str == <<"I","N","R"," ","1",",","2","0","0">>
V_999str == <<"R","s"," ","9","9","9">>
V_empty == <<>>
V_dash == <<"-">>
V_1000_00 == <<"1","0","0","0",".","0","0">>

(***************************************************************************)
(* Bounds of the model.                                                    *)
(***************************************************************************)
MaxNew == 2
MaxVisits == 2
MaxSales == 2

(***************************************************************************)
(* JavaScript built-ins used by the code.                                  *)
(***************************************************************************)
None == <<>>
Some(v) == <<v>>

ToLowerChar(c) ==
  CASE c = "A" -> "a" [] c = "B" -> "b" [] c = "C" -> "c" [] c = "D" -> "d"
    [] c = "E" -> "e" [] c = "F" -> "f" [] c = "G" -> "g" [] c = "H" -> "h"
    [] c = "I" -> "i" [] c = "J" -> "j" [] c = "K" -> "k" [] c = "L" -> "l"
    [] c = "M" -> "m" [] c = "N" -> "n" [] c = "O" -> "o" [] c = "P" -> "p"
    [] c = "Q" -> "q" [] c = "R" -> "r" [] c = "S" -> "s" [] c = "T" -> "t"
    [] c = "U" -> "u" [] c = "V" -> "v" [] c = "W" -> "w" [] c = "X" -> "x"
    [] c = "Y" -> "y" [] c = "Z" -> "z" [] OTHER -> c

\* String.prototype.toLowerCase
ToLowerCase(s) == [i \in 1..Len(s) |-> ToLowerChar(s[i])]

\* String.prototype.includes
Includes(s, sub) ==
  \E i \in 1..(Len(s) - Len(sub) + 1) : SubSeq(s, i, i + Len(sub) - 1) = sub


\* [...new Set(s)]: the distinct elements in order of first occurrence
RECURSIVE Unique(_)
Unique(s) ==
  IF s = <<>> THEN <<>>
  ELSE LET init == Unique(SubSeq(s, 1, Len(s) - 1))
           last == s[Len(s)]
       IN IF \E i \in 1..Len(init) : init[i] = last THEN init
          ELSE Append(init, last)

\* Array.prototype.map on a sequence
MapSeq(s, F(_)) == [i \in 1..Len(s) |-> F(s[i])]

\* Array.prototype.find: the index of the first element satisfying P, 0 if none
FindIndex(s, P(_)) ==
  IF \E i \in 1..Len(s) : P(s[i])
  THEN CHOOSE i \in 1..Len(s) : P(s[i]) /\ \A j \in 1..(i - 1) : ~P(s[j])
  ELSE 0

RECURSIVE SumSeq(_)
SumSeq(s) == IF s = <<>> THEN 0 ELSE s[1] + SumSeq(Tail(s))

DigitChars == {"0", "1", "2", "3", "4", "5", "6", "7", "8", "9"}
DigitVal(c) ==
  CASE c = "0" -> 0 [] c = "1" -> 1 [] c = "2" -> 2 [] c = "3" -> 3
    [] c = "4" -> 4 [] c = "5" -> 5 [] c = "6" -> 6 [] c = "7" -> 7
    [] c = "8" -> 8 [] c = "9" -> 9

\* replace(/[^0-9.-]+/g, ''): drop every character that is not a digit, '.' or '-'
StripNonNumeric(s) == SelectSeq(s, LAMBDA c : c \in DigitChars \cup {".", "-"})

\* the longest prefix of s made of digits
RECURSIVE DigitPrefix(_)
DigitPrefix(s) ==
  IF s # <<>> /\ s[1] \in DigitChars THEN <<s[1]>> \o DigitPrefix(Tail(s)) ELSE <<>>

RECURSIVE DigitsValue(_)
DigitsValue(ds) ==
  IF ds = <<>> THEN 0 ELSE DigitsValue(SubSeq(ds, 1, Len(ds) - 1)) * 10 + DigitVal(ds[Len(ds)])

\* parseFloat(s) || 0 for a string of digits, '.' and '-': an optional sign and
\* the leading digits; no leading digit gives NaN, hence 0.  The currency
\* strings of the model carry only zero decimals, so the value is integral.
ParseFloatOrZero(s) ==
  LET neg    == s # <<>> /\ s[1] = "-"
      body   == IF neg THEN Tail(s) ELSE s
      digits == DigitPrefix(body)
  IN IF digits = <<>> THEN 0
     ELSE IF neg THEN 0 - DigitsValue(digits) ELSE DigitsValue(digits)

\* typeof v === 'string' ? parseFloat(v.replace(/[^0-9.-]+/g, '')) || 0 : v || 0
NormalizeSaleValue(v) ==
  IF v.kind = "string" THEN ParseFloatOrZero(StripNonNumeric(v.s)) ELSE v.n

(***************************************************************************)
(* Collaborators imported from ./csvParser.                                *)
(***************************************************************************)
\* formatDateString: a raw date <<day, month>> to its canonical comparable
\* form; the empty string stays empty (0)
FormatDateString(raw) == IF raw = <<>> THEN 0 ELSE raw[2] * 100 + raw[1]

\* getMonthYearFromDate: the month bucket of a canonical date
GetMonthYearFromDate(d) == d \div 100

RECURSIVE TrimLeft(_)
TrimLeft(s) == IF s # <<>> /\ s[1] = " " THEN TrimLeft(Tail(s)) ELSE s

RECURSIVE TrimRight(_)
TrimRight(s) ==
  IF s # <<>> /\ s[Len(s)] = " " THEN TrimRight(SubSeq(s, 1, Len(s) - 1)) ELSE s

\* cleanFirstVisitValue: canonical form of a free-text label
CleanFirstVisitValue(s) == TrimRight(TrimLeft(s))

\* matchesPattern: case-insensitive substring match against a list of alternatives
MatchesPattern(text, alternatives) ==
  \E i \in 1..Len(alternatives) :
    Includes(ToLowerCase(text), ToLowerCase(alternatives[i]))

\* isDateAfter: a strictly after b, both canonical and non-empty
IsDateAfter(a, b) == a # 0 /\ b # 0 /\ a > b

(***************************************************************************)
(* Patterns of the source.                                                 *)
(***************************************************************************)
ExclusionPattern == <<K_friends, K_family, K_staff>>
TrialPattern == <<K_StudioOpenBarreClass, K_Newcomers2For1>>
HostedPattern ==
  <<K_hosted, K_x, K_p57, K_physique, K_weword, K_rugby, K_outdoor, K_birthday,
    K_bridal, K_shower>>
InfluencerPattern ==
  <<K_signup, K_link, K_influencer, K_twain, K_ooo, K_lrs, K_x, K_p57, K_physique,
    K_complimentary>>
MinimumSaleValue == 1000

(***************************************************************************)
(* Input records.                                                          *)
(***************************************************************************)
\* NewRecord
NewRec(email, rawDate, firstVisit, location, membership) ==
  [Email |-> email, FirstVisitAt |-> rawDate, FirstVisit |-> firstVisit,
   FirstVisitLocation |-> location, MembershipUsed |-> membership]

\* BookingRecord
Booking(email, rawDate, className, location, teacher, cancelled, late, noShow) ==
  [CustomerEmail |-> email, ClassDate |-> rawDate, ClassName |-> className,
   Location |-> location, Teacher |-> teacher, Cancelled |-> cancelled,
   LateCancelled |-> late, NoShow |-> noShow]

\* SaleRecord
Sale(category, item, rawDate, rawValue, refunded, customer, payer) ==
  [Category |-> category, Item |-> item, Date |-> rawDate, SaleValue |-> rawValue,
   Refunded |-> refunded, CustomerEmail |-> customer, PayingCustomerEmail |-> payer]

Num(n) == [kind |-> "number", n |-> n]
Str(s) == [kind |-> "string", s |-> s]

VARIABLES
  newData, bookingsData, salesData, salesGiven,   \* the arguments of processData
  pc,                                             \* the stage the run is at
  progressLog,                                    \* percentages passed to updateProgress
  cleanedNewData, cleanedBookingsData, cleanedSalesData,
  enrichedNewData,
  locations, teachers, periods,
  processedData, studioData,
  includedRecords, excludedRecords, newClientRecords, convertedClientRecords,
  retainedClientRecords,
  k,                                              \* position in the teacher/location/period loops
  cur,                                            \* locals of the cohort being computed
  si,                                             \* position of the sales scan
  result                                          \* the value the promise resolved with

inputs == <<newData, bookingsData, salesData, salesGiven>>
cleaned == <<cleanedNewData, cleanedBookingsData, cleanedSalesData>>
keys == <<locations, teachers, periods>>
audit ==
  <<includedRecords, excludedRecords, newClientRecords, convertedClientRecords,
    retainedClientRecords>>
vars ==
  <<newData, bookingsData, salesData, salesGiven, pc, progressLog, cleanedNewData,
    cleanedBookingsData, cleanedSalesData, enrichedNewData, locations, teachers,
    periods, processedData, studioData, includedRecords, excludedRecords,
    newClientRecords, convertedClientRecords, retainedClientRecords, k, cur, si,
    result>>

(***************************************************************************)
(* Step 1: clean and normalize.                                            *)
(***************************************************************************)
CleanNewRecord(r) ==
  [r EXCEPT !.FirstVisitAt = FormatDateString(@),
            !.FirstVisit = CleanFirstVisitValue(@)]

CleanBookingRecord(r) ==
  [r EXCEPT !.ClassDate = FormatDateString(@),
            !.ClassName = CleanFirstVisitValue(@)]

CleanSaleRecord(r) ==
  [r EXCEPT !.Date = FormatDateString(@),
            !.SaleValue = NormalizeSaleValue(@)]

\* salesData ? salesData.map(...) : []
CleanedSales(given, rows) == IF given THEN MapSeq(rows, CleanSaleRecord) ELSE <<>>

(***************************************************************************)
(* Step 2: match intake records with bookings to get the teacher.          *)
(***************************************************************************)

\* variant: the location is left out of the comparison
MatchingBookingIgnoringLocation(newRecord, bookings) ==
  FindIndex(bookings, LAMBDA b :
    /\ b.CustomerEmail = newRecord.Email
    /\ b.ClassName = newRecord.FirstVisit
    /\ b.ClassDate = newRecord.FirstVisitAt)

MatchingBooking(newRecord, bookings) ==
  FindIndex(bookings, LAMBDA b :
    /\ b.CustomerEmail = newRecord.Email
    /\ b.ClassName = newRecord.FirstVisit
    /\ b.ClassDate = newRecord.FirstVisitAt
    /\ b.Location = newRecord.FirstVisitLocation)

EnrichNewRecord(newRecord, bookings) ==
  LET m == MatchingBooking(newRecord, bookings)
  IN newRecord @@ [Teacher |-> IF m # 0 THEN bookings[m].Teacher ELSE "Unknown"]

(***************************************************************************)
(* Step 3: the keys of the cohorts.                                        *)
(***************************************************************************)
UniqueLocations(enriched) == Unique(MapSeq(enriched, LAMBDA r : r.FirstVisitLocation))

\* variant: the 'Unknown' sentinel is kept among the staff members
UniqueTeachersKeepingUnknown(bookings) ==
  Unique(SelectSeq(MapSeq(bookings, LAMBDA b : b.Teacher), LAMBDA t : t # ""))

UniqueTeachers(bookings) ==
  Unique(SelectSeq(MapSeq(bookings, LAMBDA b : b.Teacher),
                   LAMBDA t : t # "" /\ t # "Unknown"))

UniquePeriods(enriched) ==
  Unique(MapSeq(enriched, LAMBDA r : GetMonthYearFromDate(r.FirstVisitAt)))

(***************************************************************************)
(* Step 4: exclusion, cohorts, retention, conversion, metrics.             *)
(***************************************************************************)
MembershipExcluded(r) == MatchesPattern(r.MembershipUsed, ExclusionPattern)
FirstVisitExcluded(r) == MatchesPattern(r.FirstVisit, ExclusionPattern)

ExcludedRecord(r) ==
  r @@ [reason |-> IF MembershipExcluded(r)
                   THEN [kind |-> "membership", label |-> r.MembershipUsed]
                   ELSE [kind |-> "class", label |-> r.FirstVisit]]

ExcludedRecords(enriched) ==
  SelectSeq(MapSeq(enriched, ExcludedRecord),
            LAMBDA r : MembershipExcluded(r) \/ FirstVisitExcluded(r))

\* teachers.forEach(locations.forEach(periods.forEach(...))): the k-th triple
NumTriples == Len(teachers) * Len(locations) * Len(periods)
TripleAt(n) ==
  LET nl == Len(locations)
      np == Len(periods)
  IN [teacher  |-> teachers[((n - 1) \div (nl * np)) + 1],
      location |-> locations[(((n - 1) \div np) % nl) + 1],
      period   |-> periods[((n - 1) % np) + 1]]

TeacherNewClients(enriched, teacher, location, period) ==
  SelectSeq(enriched, LAMBDA r :
    /\ r.Teacher = teacher
    /\ r.FirstVisitLocation = location
    /\ GetMonthYearFromDate(r.FirstVisitAt) = period
    /\ ~MembershipExcluded(r)
    /\ ~FirstVisitExcluded(r))

\* variant: the iteration goes on whatever the number of new clients
HasNewClientsAlways(teacherNewClients) == TRUE

\* the test of `if (teacherNewClients.length === 0) return`
HasNewClients(teacherNewClients) == Len(teacherNewClients) # 0

TeacherBookings(bookings, teacher, location, period) ==
  SelectSeq(bookings, LAMBDA b :
    /\ b.Teacher = teacher
    /\ b.Location = location
    /\ GetMonthYearFromDate(b.ClassDate) = period)

CountWhere(s, P(_)) == Len(SelectSeq(s, P))

IsTrial(r) == MatchesPattern(r.MembershipUsed, TrialPattern)
IsReferral(r) == r.MembershipUsed = K_ReferralClass
IsHosted(r) == MatchesPattern(r.FirstVisit, HostedPattern)
IsInfluencer(r) == MatchesPattern(r.MembershipUsed, InfluencerPattern)

\* variant: a no-show still counts as a return visit
ReturnVisitsCountingNoShows(bookings, clients) ==
  SelectSeq(bookings, LAMBDA b :
    LET m == FindIndex(clients, LAMBDA c : c.Email = b.CustomerEmail)
    IN /\ m # 0
       /\ IsDateAfter(b.ClassDate, clients[m].FirstVisitAt)
       /\ b.Cancelled = "NO"
       /\ b.LateCancelled = "NO")

\* retention
ReturnVisits(bookings, clients) ==
  SelectSeq(bookings, LAMBDA b :
    LET m == FindIndex(clients, LAMBDA c : c.Email = b.CustomerEmail)
    IN /\ m # 0
       /\ IsDateAfter(b.ClassDate, clients[m].FirstVisitAt)
       /\ b.Cancelled = "NO"
       /\ b.LateCancelled = "NO"
       /\ b.NoShow = "NO")

ClientReturnVisits(returnVisits, email) ==
  SelectSeq(returnVisits, LAMBDA v : v.CustomerEmail = email)

\* variant: the "2 for 1" marker is looked for without lower-casing the label
RequiredVisitsCaseSensitive(firstVisitValue) ==
  IF Includes(firstVisitValue, K_2for1) THEN 2 ELSE 1

RequiredVisits(firstVisitValue) ==
  IF Includes(ToLowerCase(firstVisitValue), K_2for1) THEN 2 ELSE 1

IsRetained(client, returnVisits) ==
  Len(ClientReturnVisits(returnVisits, client.Email)) >= RequiredVisits(client.FirstVisit)

RetainedClientEmails(clients, returnVisits) ==
  MapSeq(SelectSeq(clients, LAMBDA c : IsRetained(c, returnVisits)),
         LAMBDA c : c.Email)

RetainedClientRecord(client, returnVisits) ==
  LET visits == ClientReturnVisits(returnVisits, client.Email)
  IN [email |-> client.Email, firstVisit |-> client.FirstVisitAt,
      visitsPostTrial |-> Len(visits), required |-> RequiredVisits(client.FirstVisit),
      firstVisitPostTrial |-> IF visits # <<>> THEN Some(visits[1].ClassDate) ELSE None,
      membershipUsed |-> client.MembershipUsed]
\* variant: a client starts the sales scan as converted
InitialStatusConverted ==
  [isConverted |-> TRUE, reason |-> [kind |-> "none"],
   firstPurchaseDate |-> None, firstPurchaseItem |-> None, purchaseValue |-> None]

\* conversion
InitialStatus ==
  [isConverted |-> FALSE, reason |-> [kind |-> "none"],
   firstPurchaseDate |-> None, firstPurchaseItem |-> None, purchaseValue |-> None]

InitialConversionMap(clients) ==
  [e \in {clients[i].Email : i \in 1..Len(clients)} |-> InitialStatus]

MatchingClient(sale, clients) ==
  FindIndex(clients, LAMBDA c :
    c.Email = sale.CustomerEmail \/ c.Email = sale.PayingCustomerEmail)

\* variant: the sale must be strictly after the first visit
IsDateStrictlyAfter(dateA, dateB) ==
  IF dateA = 0 \/ dateB = 0 THEN FALSE ELSE dateA > dateB

IsDateOnOrAfter(dateA, dateB) ==
  IF dateA = 0 \/ dateB = 0 THEN FALSE ELSE dateA >= dateB

SaleDateAfterVisit(sale, client) == IsDateOnOrAfter(sale.Date, client.FirstVisitAt)

\* variant: the retail exclusion is matched against the category as written
NotExcludedCategoryCaseSensitive(sale) ==
  /\ ~Includes(ToLowerCase(sale.Category), K_moneyCredits)
  /\ ~Includes(sale.Category, K_retail)
  /\ ~Includes(ToLowerCase(sale.Category), K_product)

NotExcludedCategory(sale) ==
  LET category == ToLowerCase(sale.Category)
  IN /\ ~Includes(category, K_moneyCredits)
     /\ ~Includes(category, K_retail)
     /\ ~Includes(category, K_product)

Not2For1Item(sale) == ~Includes(ToLowerCase(sale.Item), K_2for1)

\* variant: the threshold before it was raised to 1000
HasPositiveSaleValue(sale) == sale.SaleValue > 0

HasMinimumSaleValue(sale) == sale.SaleValue >= MinimumSaleValue

NotRefunded(sale) == sale.Refunded # "YES"

ConversionReason(sale, client) ==
  IF ~SaleDateAfterVisit(sale, client)
    THEN [kind |-> "date", saleDate |-> sale.Date, firstVisitDate |-> client.FirstVisitAt]
  ELSE IF ~NotExcludedCategory(sale)
    THEN [kind |-> "category", category |-> sale.Category]
  ELSE IF ~Not2For1Item(sale)
    THEN [kind |-> "item", item |-> sale.Item]
  ELSE IF ~HasMinimumSaleValue(sale)
    THEN [kind |-> "value", saleValue |-> sale.SaleValue]
  ELSE IF ~NotRefunded(sale)
    THEN [kind |-> "refunded", item |-> sale.Item]
  ELSE [kind |-> "converted", item |-> sale.Item, saleValue |-> sale.SaleValue,
        saleDate |-> sale.Date]

IsConverted(sale, client) ==
  /\ SaleDateAfterVisit(sale, client)
  /\ NotExcludedCategory(sale)
  /\ Not2For1Item(sale)
  /\ HasMinimumSaleValue(sale)
  /\ NotRefunded(sale)

\* variant: every qualifying sale overwrites the attribution
UpdatedConversionMapLastWins(map, sale, client) ==
  LET currentStatus == map[client.Email]
  IN IF IsConverted(sale, client)
       THEN [map EXCEPT ![client.Email] =
               [isConverted |-> TRUE, reason |-> ConversionReason(sale, client),
                firstPurchaseDate |-> Some(sale.Date),
                firstPurchaseItem |-> Some(sale.Item),
                purchaseValue |-> Some(sale.SaleValue)]]
     ELSE IF ~currentStatus.isConverted
       THEN [map EXCEPT ![client.Email].reason = ConversionReason(sale, client)]
     ELSE map

\* variant: a non-qualifying sale rewrites the reason of a converted member too
UpdatedConversionMapReasonAlways(map, sale, client) ==
  LET currentStatus == map[client.Email]
  IN IF IsConverted(sale, client) /\ ~currentStatus.isConverted
       THEN [map EXCEPT ![client.Email] =
               [isConverted |-> TRUE, reason |-> ConversionReason(sale, client),
                firstPurchaseDate |-> Some(sale.Date),
                firstPurchaseItem |-> Some(sale.Item),
                purchaseValue |-> Some(sale.SaleValue)]]
     ELSE IF ~IsConverted(sale, client)
       THEN [map EXCEPT ![client.Email].reason = ConversionReason(sale, client)]
     ELSE map

\* the clientConversionMap after one matched sale
UpdatedConversionMap(map, sale, client) ==
  LET currentStatus == map[client.Email]
  IN IF IsConverted(sale, client) /\ ~currentStatus.isConverted
       THEN [map EXCEPT ![client.Email] =
               [isConverted |-> TRUE, reason |-> ConversionReason(sale, client),
                firstPurchaseDate |-> Some(sale.Date),
                firstPurchaseItem |-> Some(sale.Item),
                purchaseValue |-> Some(sale.SaleValue)]]
     ELSE IF ~IsConverted(sale, client) /\ ~currentStatus.isConverted
       THEN [map EXCEPT ![client.Email].reason = ConversionReason(sale, client)]
     ELSE map

ConvertedClientRecord(sale, client) ==
  [email |-> client.Email, firstVisit |-> client.FirstVisitAt,
   purchaseDate |-> sale.Date, saleValue |-> sale.SaleValue, purchaseItem |-> sale.Item]

\* sale['Customer email'] || sale['Paying Customer email'] || ''
SaleEmail(sale) ==
  IF sale.CustomerEmail # "" THEN sale.CustomerEmail ELSE sale.PayingCustomerEmail

ConvertedClientEmails(convertedClients) == Unique(MapSeq(convertedClients, SaleEmail))

NewClientDetail(client, map) ==
  LET conversionInfo == map[client.Email]
  IN [email |-> client.Email, date |-> client.FirstVisitAt,
      membershipType |-> client.MembershipUsed,
      conversionStatus |-> IF conversionInfo.isConverted THEN "converted"
                           ELSE "not_converted",
      conversionReason |-> conversionInfo.reason,
      firstPurchaseDate |-> conversionInfo.firstPurchaseDate,
      firstPurchaseItem |-> conversionInfo.firstPurchaseItem,
      purchaseValue |-> conversionInfo.purchaseValue]

\* the first element of a stable sort by date: the earliest sale, the first of
\* them in list order
EarliestSale(sales) ==
  LET i == CHOOSE i \in 1..Len(sales) :
             /\ \A j \in 1..Len(sales) : sales[i].Date <= sales[j].Date
             /\ \A j \in 1..(i - 1) : sales[j].Date # sales[i].Date
  IN sales[i]

ConvertedClientDetail(email, convertedClients, clients) ==
  LET clientSales == SelectSeq(convertedClients, LAMBDA s : SaleEmail(s) = email)
      totalValue  == SumSeq(MapSeq(clientSales, LAMBDA s : s.SaleValue))
      info        == FindIndex(clients, LAMBDA c : c.Email = email)
      first       == EarliestSale(clientSales)
  IN [email |-> email, known |-> info # 0, date |-> first.Date,
      firstVisit |-> IF info # 0 THEN Some(clients[info].FirstVisitAt) ELSE None,
      value |-> totalValue, firstPurchaseDate |-> first.Date,
      firstPurchaseItem |-> first.Item, purchaseValue |-> totalValue,
      conversionStatus |-> "converted"]

RetainedClientDetail(email, returnVisits, clients) ==
  LET clientVisits == ClientReturnVisits(returnVisits, email)
      info         == FindIndex(clients, LAMBDA c : c.Email = email)
  IN [email |-> email, visitCount |-> Len(clientVisits),
      date |-> IF clientVisits # <<>> THEN Some(clientVisits[1].ClassDate) ELSE None,
      firstVisit |-> IF info # 0 THEN Some(clients[info].FirstVisitAt) ELSE None]

\* variant: the division is made whatever the denominator
RateUnguarded(n, d) == <<n * 100, d>>

\* a percentage n/d*100 and a quotient n/d, kept exact as <<numerator, denominator>>;
\* a zero denominator gives 0
Rate(n, d) == IF d > 0 THEN <<n * 100, d>> ELSE <<0, 1>>
Quotient(n, d) == IF d > 0 THEN <<n, d>> ELSE <<0, 1>>

\* the converted sales whose email is a cohort member satisfying InChannel
ChannelConvertedCount(convertedClients, clients, InChannel(_)) ==
  CountWhere(convertedClients, LAMBDA s :
    \E i \in 1..Len(clients) : clients[i].Email = SaleEmail(s) /\ InChannel(clients[i]))

\* variant: only the first kept sale of each email is summed
TotalRevenueFirstPurchases(convertedClients) ==
  SumSeq([i \in 1..Len(convertedClients) |->
            IF \E j \in 1..(i - 1) : SaleEmail(convertedClients[j]) = SaleEmail(convertedClients[i])
            THEN 0 ELSE convertedClients[i].SaleValue])

\* convertedClients.reduce((sum, sale) => sum + saleValue, 0)
TotalRevenue(convertedClients) ==
  SumSeq(MapSeq(convertedClients, LAMBDA s : s.SaleValue))

NoCohort ==
  [teacher |-> "", location |-> "", period |-> 0, clients |-> <<>>,
   returnVisits |-> <<>>, retainedEmails |-> <<>>, map |-> <<>>,
   convertedClients |-> <<>>]

\* the record pushed to processedData for the cohort whose locals are c
CohortMetrics(c, bookings, excluded) ==
  LET clients           == c.clients
      teacherBookings   == TeacherBookings(bookings, c.teacher, c.location, c.period)
      newClientsCount   == Len(clients)
      trials            == CountWhere(clients, IsTrial)
      referrals         == CountWhere(clients, IsReferral)
      hosted            == CountWhere(clients, IsHosted)
      influencerSignups == CountWhere(clients, IsInfluencer)
      others            == newClientsCount - (trials + referrals + hosted + influencerSignups)
      noShows           == CountWhere(teacherBookings, LAMBDA b : b.NoShow = "YES")
      lateCancellations == CountWhere(teacherBookings, LAMBDA b : b.LateCancelled = "YES")
      retainedCount     == Len(c.retainedEmails)
      convertedEmails   == ConvertedClientEmails(c.convertedClients)
      convertedCount    == Len(convertedEmails)
      totalRevenue      == TotalRevenue(c.convertedClients)
  IN [teacherName |-> c.teacher, location |-> c.location, period |-> c.period,
      newClients |-> newClientsCount, trials |-> trials, referrals |-> referrals,
      hosted |-> hosted, influencerSignups |-> influencerSignups, others |-> others,
      retainedClients |-> retainedCount,
      retentionRate |-> Rate(retainedCount, newClientsCount),
      convertedClients |-> convertedCount,
      conversionRate |-> Rate(convertedCount, newClientsCount),
      totalRevenue |-> totalRevenue,
      averageRevenuePerClient |-> Quotient(totalRevenue, convertedCount),
      noShowRate |-> Rate(noShows, Len(teacherBookings)),
      lateCancellationRate |-> Rate(lateCancellations, Len(teacherBookings)),
      firstTimeBuyerRate |-> Rate(convertedCount, newClientsCount),
      influencerConversionRate |->
        Rate(ChannelConvertedCount(c.convertedClients, clients, IsInfluencer),
             influencerSignups),
      referralConversionRate |->
        Rate(ChannelConvertedCount(c.convertedClients, clients, IsReferral), referrals),
      trialToMembershipConversion |->
        Rate(ChannelConvertedCount(c.convertedClients, clients, IsTrial), trials),
      totalVisits |-> CountWhere(teacherBookings, LAMBDA b :
                        b.Cancelled = "NO" /\ b.LateCancelled = "NO" /\ b.NoShow = "NO"),
      cancellations |-> CountWhere(teacherBookings, LAMBDA b : b.Cancelled = "YES"),
      lateCancellations |-> lateCancellations,
      noShows |-> noShows,
      totalClasses |-> Len(Unique(MapSeq(teacherBookings, LAMBDA b : b.ClassName))),
      uniqueClients |-> Len(Unique(MapSeq(teacherBookings, LAMBDA b : b.CustomerEmail))),
      newClientDetails |-> MapSeq(clients, LAMBDA r : NewClientDetail(r, c.map)),
      retainedClientDetails |->
        MapSeq(c.retainedEmails,
               LAMBDA e : RetainedClientDetail(e, c.returnVisits, clients)),
      convertedClientDetails |->
        MapSeq(convertedEmails,
               LAMBDA e : ConvertedClientDetail(e, c.convertedClients, clients)),
      excludedClientDetails |->
        SelectSeq(excluded, LAMBDA x :
          /\ x.Teacher = c.teacher
          /\ x.FirstVisitLocation = c.location
          /\ GetMonthYearFromDate(x.FirstVisitAt) = c.period),
      clientsBySource |-> <<trials, referrals, hosted, influencerSignups, others>>]

\* studioData[location] as first created
NewStudio(location, period) ==
  [teacherName |-> "All Teachers", location |-> location, period |-> period,
   newClients |-> 0, trials |-> 0, referrals |-> 0, hosted |-> 0,
   influencerSignups |-> 0, others |-> 0, retainedClients |-> 0,
   retentionRate |-> <<0, 1>>, convertedClients |-> 0, conversionRate |-> <<0, 1>>,
   totalRevenue |-> 0, averageRevenuePerClient |-> <<0, 1>>, noShowRate |-> <<0, 1>>,
   lateCancellationRate |-> <<0, 1>>, firstTimeBuyerRate |-> <<0, 1>>,
   influencerConversionRate |-> <<0, 1>>, referralConversionRate |-> <<0, 1>>,
   trialToMembershipConversion |-> <<0, 1>>, totalVisits |-> 0, cancellations |-> 0,
   lateCancellations |-> 0, noShows |-> 0, totalClasses |-> 0, uniqueClients |-> 0,
   newClientDetails |-> <<>>, retainedClientDetails |-> <<>>,
   convertedClientDetails |-> <<>>, excludedClientDetails |-> <<>>,
   clientsBySource |-> <<>>]

\* the studio record after adding one cohort record m to it
AddToStudio(studio, m, excluded) ==
  [studio EXCEPT
     !.newClients = @ + m.newClients,
     !.trials = @ + m.trials,
     !.referrals = @ + m.referrals,
     !.hosted = @ + m.hosted,
     !.influencerSignups = @ + m.influencerSignups,
     !.others = @ + m.others,
     !.retainedClients = @ + m.retainedClients,
     !.convertedClients = @ + m.convertedClients,
     !.totalRevenue = @ + m.totalRevenue,
     !.totalVisits = @ + m.totalVisits,
     !.cancellations = @ + m.cancellations,
     !.lateCancellations = @ + m.lateCancellations,
     !.noShows = @ + m.noShows,
     !.totalClasses = @ + m.totalClasses,
     !.uniqueClients = @ + m.uniqueClients,
     !.newClientDetails = @ \o m.newClientDetails,
     !.retainedClientDetails = @ \o m.retainedClientDetails,
     !.convertedClientDetails = @ \o m.convertedClientDetails,
     !.excludedClientDetails = @ \o SelectSeq(excluded, LAMBDA x :
         /\ x.FirstVisitLocation = m.location
         /\ GetMonthYearFromDate(x.FirstVisitAt) = m.period),
     !.clientsBySource =
        IF @ = <<>> THEN m.clientsBySource
        ELSE [i \in 1..Len(@) |-> @[i] + m.clientsBySource[i]]]

\* the key under which a cohort is accumulated: studioData[location]
StudioIndex(studios, m) == FindIndex(studios, LAMBDA s : s.rec.location = m.location)

\* studioData after the cohort record m, pushed at position pos of processedData.
\* owner is the position of the cohort record whose clientsBySource entries the
\* studio's array holds ([...clientsBySource] copies the array, not its objects).
AccumulateStudio(studios, m, pos, excluded) ==
  LET i == StudioIndex(studios, m)
  IN IF i = 0
     THEN Append(studios,
                 [rec |-> AddToStudio(NewStudio(m.location, m.period), m, excluded),
                  owner |-> pos])
     ELSE [studios EXCEPT ![i].rec = AddToStudio(@, m, excluded)]

\* processedData after the push of m and the accumulation into its studio: the
\* cohort that shares its clientsBySource objects with the studio sees the sums
PushCohort(processed, studios, m) ==
  LET i == StudioIndex(studios, m)
  IN IF i = 0 THEN Append(processed, m)
     ELSE Append([processed EXCEPT ![studios[i].owner].clientsBySource =
                    [j \in 1..Len(@) |-> @[j] + m.clientsBySource[j]]], m)

\* Calculate rates for studios
StudioWithRates(studio) ==
  [studio EXCEPT
     !.retentionRate = Rate(studio.retainedClients, studio.newClients),
     !.conversionRate = Rate(studio.convertedClients, studio.newClients),
     !.averageRevenuePerClient = Quotient(studio.totalRevenue, studio.convertedClients)]

\* the sorted copy of s by Rank, ascending, stable
SortBy(s, Rank(_)) ==
  LET Before(j, i) == Rank(s[j]) < Rank(s[i]) \/ (Rank(s[j]) = Rank(s[i]) /\ j < i)
      Pos(i) == Cardinality({j \in 1..Len(s) : Before(j, i)}) + 1
  IN [p \in 1..Len(s) |-> s[CHOOSE i \in 1..Len(s) : Pos(i) = p]]

\* code-unit order of the staff names of the model
NameRank(t) == CASE t = "T1" -> 1 [] t = "T2" -> 2 [] OTHER -> 3

(***************************************************************************)
(* The run: one action per stage of processData.                           *)
(***************************************************************************)

\* variant: the latest report is put before the earlier ones
UpdateProgressPrepending(p) == progressLog' = <<p>> \o progressLog

UpdateProgress(p) == progressLog' = Append(progressLog, p)

\* the Promise executor: updateProgress(5), then the first timer is set
Start ==
  /\ pc = "start"
  /\ UpdateProgress(5)
  /\ pc' = "clean"
  /\ UNCHANGED <<inputs, cleaned, enrichedNewData, keys, processedData, studioData,
                 audit, k, cur, si, result>>

\* first timer: Step 1
CleanData ==
  /\ pc = "clean"
  /\ cleanedNewData' = MapSeq(newData, CleanNewRecord)
  /\ cleanedBookingsData' = MapSeq(bookingsData, CleanBookingRecord)
  /\ cleanedSalesData' = CleanedSales(salesGiven, salesData)
  /\ UpdateProgress(20)
  /\ pc' = "link"
  /\ UNCHANGED <<inputs, enrichedNewData, keys, processedData, studioData, audit, k,
                 cur, si, result>>

\* second timer: Step 2
LinkTeachers ==
  /\ pc = "link"
  /\ enrichedNewData' =
       MapSeq(cleanedNewData, LAMBDA r : EnrichNewRecord(r, cleanedBookingsData))
  /\ UpdateProgress(40)
  /\ pc' = "keys"
  /\ UNCHANGED <<inputs, cleaned, keys, processedData, studioData, audit, k, cur, si,
                 result>>

\* third timer: Step 3
EnumerateKeys ==
  /\ pc = "keys"
  /\ locations' = UniqueLocations(enrichedNewData)
  /\ teachers' = UniqueTeachers(cleanedBookingsData)
  /\ periods' = UniquePeriods(enrichedNewData)
  /\ UpdateProgress(60)
  /\ pc' = "metrics"
  /\ UNCHANGED <<inputs, cleaned, enrichedNewData, processedData, studioData, audit,
                 k, cur, si, result>>

\* the accumulators kept across calls instead of declared inside the call
BeginMetricsKeepingRollups ==
  /\ pc = "metrics"
  /\ processedData' = <<>>
  /\ includedRecords' = <<>>
  /\ excludedRecords' = ExcludedRecords(enrichedNewData)
  /\ newClientRecords' = <<>>
  /\ convertedClientRecords' = <<>>
  /\ retainedClientRecords' = <<>>
  /\ k' = 1
  /\ pc' = "cohort"
  /\ UNCHANGED <<inputs, cleaned, enrichedNewData, keys, progressLog, studioData,
                 cur, si, result>>

\* fourth timer, Step 4: fresh accumulators, then the global exclusion scan
BeginMetrics ==
  /\ pc = "metrics"
  /\ processedData' = <<>>
  /\ studioData' = <<>>
  /\ includedRecords' = <<>>
  /\ excludedRecords' = ExcludedRecords(enrichedNewData)
  /\ newClientRecords' = <<>>
  /\ convertedClientRecords' = <<>>
  /\ retainedClientRecords' = <<>>
  /\ k' = 1
  /\ pc' = "cohort"
  /\ UNCHANGED <<inputs, cleaned, enrichedNewData, keys, progressLog, cur, si, result>>

\* a (teacher, location, period) triple with no new client: return
SkipCohort ==
  /\ pc = "cohort"
  /\ k <= NumTriples
  /\ LET t == TripleAt(k)
     IN ~HasNewClients(TeacherNewClients(enrichedNewData, t.teacher, t.location, t.period))
  /\ k' = k + 1
  /\ UNCHANGED <<inputs, cleaned, enrichedNewData, keys, progressLog, processedData,
                 studioData, audit, cur, si, result, pc>>

\* a triple with new clients: inclusion records, updateProgress(80), retention,
\* and the conversion map before the sales scan
BeginCohort ==
  /\ pc = "cohort"
  /\ k <= NumTriples
  /\ LET t       == TripleAt(k)
         clients == TeacherNewClients(enrichedNewData, t.teacher, t.location, t.period)
         visits  == ReturnVisits(cleanedBookingsData, clients)
     IN /\ HasNewClients(clients)
        /\ includedRecords' = includedRecords \o clients
        /\ retainedClientRecords' =
             retainedClientRecords \o
               MapSeq(SelectSeq(clients, LAMBDA c : IsRetained(c, visits)),
                      LAMBDA c : RetainedClientRecord(c, visits))
        /\ cur' = [teacher |-> t.teacher, location |-> t.location, period |-> t.period,
                   clients |-> clients, returnVisits |-> visits,
                   retainedEmails |-> RetainedClientEmails(clients, visits),
                   map |-> InitialConversionMap(clients),
                   convertedClients |-> <<>>]
  /\ UpdateProgress(80)
  /\ si' = 1
  /\ pc' = "sales"
  /\ UNCHANGED <<inputs, cleaned, enrichedNewData, keys, processedData, studioData,
                 excludedRecords, newClientRecords, convertedClientRecords, k, result>>

\* one call of the cleanedSalesData.filter callback
ScanSale ==
  /\ pc = "sales"
  /\ si <= Len(cleanedSalesData)
  /\ LET sale == cleanedSalesData[si]
         m    == MatchingClient(sale, cur.clients)
     IN IF m = 0
        THEN UNCHANGED <<cur, convertedClientRecords>>
        ELSE LET client == cur.clients[m]
             IN /\ cur' = [cur EXCEPT
                             !.map = UpdatedConversionMap(@, sale, client),
                             !.convertedClients =
                                IF IsConverted(sale, client) THEN Append(@, sale) ELSE @]
                /\ convertedClientRecords' =
                     IF IsConverted(sale, client)
                     THEN Append(convertedClientRecords, ConvertedClientRecord(sale, client))
                     ELSE convertedClientRecords
  /\ si' = si + 1
  /\ UNCHANGED <<inputs, cleaned, enrichedNewData, keys, progressLog, processedData,
                 studioData, includedRecords, excludedRecords, newClientRecords,
                 retainedClientRecords, k, result, pc>>

\* after the scan: the cohort's metrics, the push, the studio accumulation
EndCohort ==
  /\ pc = "sales"
  /\ si > Len(cleanedSalesData)
  /\ LET m == CohortMetrics(cur, cleanedBookingsData, excludedRecords)
     IN /\ newClientRecords' = newClientRecords \o m.newClientDetails
        /\ processedData' = PushCohort(processedData, studioData, m)
        /\ studioData' =
             AccumulateStudio(studioData, m, Len(processedData) + 1, excludedRecords)
  /\ cur' = NoCohort
  /\ k' = k + 1
  /\ pc' = "cohort"
  /\ UNCHANGED <<inputs, cleaned, enrichedNewData, keys, progressLog, includedRecords,
                 excludedRecords, convertedClientRecords, retainedClientRecords, si,
                 result>>

\* variant: the last callback reports 100 and returns without calling resolve
FinishWithoutResolve ==
  /\ pc = "cohort"
  /\ k > NumTriples
  /\ processedData' =
       processedData \o MapSeq(studioData, LAMBDA s : StudioWithRates(s.rec))
  /\ UpdateProgress(100)
  /\ pc' = "done"
  /\ UNCHANGED <<inputs, cleaned, enrichedNewData, keys, studioData, audit, k, cur,
                 si, result>>

\* after the loops: studio rates, updateProgress(100), resolve
Finish ==
  /\ pc = "cohort"
  /\ k > NumTriples
  /\ LET final == processedData \o MapSeq(studioData, LAMBDA s : StudioWithRates(s.rec))
     IN /\ processedData' = final
        /\ result' = Some([processedData |-> final, locations |-> locations,
                           teachers |-> SortBy(teachers, NameRank),
                           periods |-> SortBy(periods, LAMBDA p : 0 - p),
                           includedRecords |-> includedRecords,
                           excludedRecords |-> excludedRecords,
                           newClientRecords |-> newClientRecords,
                           convertedClientRecords |-> convertedClientRecords,
                           retainedClientRecords |-> retainedClientRecords])
  /\ UpdateProgress(100)
  /\ pc' = "done"
  /\ UNCHANGED <<inputs, cleaned, enrichedNewData, keys, studioData, audit, k, cur, si>>

Next ==
  \/ Start
  \/ CleanData
  \/ LinkTeachers
  \/ EnumerateKeys
  \/ BeginMetrics
  \/ SkipCohort
  \/ BeginCohort
  \/ ScanSale
  \/ EndCohort
  \/ Finish

(***************************************************************************)
(* The runs checked.  An intake record is one client's first visit, so the *)
(* emails of an intake dataset are distinct.  The attendance dataset is    *)
(* the bookings of the first visits (one per intake record that has a      *)
(* staff member, "" standing for an intake record with no booking)         *)
(* followed by further bookings.                                           *)
(***************************************************************************)
SeqsUpTo(S, n) == UNION {[1..m -> S] : m \in 0..n}

DistinctEmails(nd) == \A i, j \in 1..Len(nd) : nd[i].Email = nd[j].Email => i = j

FirstVisitBookings(nd, staff) ==
  MapSeq(SelectSeq([i \in 1..Len(nd) |-> [r |-> nd[i], t |-> staff[i]]],
                   LAMBDA x : x.t # ""),
         LAMBDA x : Booking(x.r.Email, x.r.FirstVisitAt, CleanFirstVisitValue(x.r.FirstVisit),
                            x.r.FirstVisitLocation, x.t, "NO", "NO", "NO"))

Absent == [given |-> FALSE, rows |-> <<>>]
Given(rows) == [given |-> TRUE, rows |-> rows]

InitWith(intakes, staffChoices, furtherBookings, salesChoices) ==
  /\ \E nd \in intakes :
       \E staff \in [1..Len(nd) -> staffChoices] :
         \E further \in furtherBookings :
           /\ newData = nd
           /\ bookingsData = FirstVisitBookings(nd, staff) \o further
  /\ \E sales \in salesChoices :
       /\ salesGiven = sales.given
       /\ salesData = sales.rows
  /\ pc = "start"
  /\ progressLog = <<>>
  /\ cleanedNewData = <<>>
  /\ cleanedBookingsData = <<>>
  /\ cleanedSalesData = <<>>
  /\ enrichedNewData = <<>>
  /\ locations = <<>>
  /\ teachers = <<>>
  /\ periods = <<>>
  /\ processedData = <<>>
  /\ studioData = <<>>
  /\ includedRecords = <<>>
  /\ excludedRecords = <<>>
  /\ newClientRecords = <<>>
  /\ convertedClientRecords = <<>>
  /\ retainedClientRecords = <<>>
  /\ k = 0
  /\ cur = NoCohort
  /\ si = 0
  /\ result = None

\* intake, attendance and sales of two studios, two staff members, two months
IntakeUniverse ==
  { NewRec("a@x.com", <<5, 1>>, L_Barre57Padded, "Studio A", K_StudioOpenBarreClass),
    NewRec("a@x.com", <<5, 1>>, L_2For1Intro, "Studio A", M_SingleClass),
    NewRec("b@x.com", <<3, 2>>, L_Barre57, "Studio A", K_ReferralClass),
    NewRec("b@x.com", <<10, 1>>, L_Barre57, "Studio B", M_InfluencerSignUp),
    NewRec("c@x.com", <<10, 1>>, L_HostedClass, "Studio A", M_SingleClass),
    NewRec("c@x.com", <<10, 1>>, L_Barre57, "Studio A", M_FriendsFamily) }

Intakes == {nd \in SeqsUpTo(IntakeUniverse, MaxNew) : DistinctEmails(nd)}

StaffChoices == {"T1", "T2", ""}

FurtherBookings ==
  { <<>>,
    << Booking("a@x.com", <<12, 1>>, L_Barre57, "Studio A", "T1", "NO", "NO", "NO"),
       Booking("b@x.com", <<10, 2>>, L_Barre57, "Studio A", "T2", "NO", "NO", "YES") >> }

SalesChoices ==
  { Absent,
    Given(<<>>),
    Given(<< Sale(C_Membership, I_10ClassPack, <<20, 1>>, Num(1200), "NO",
                  "a@x.com", "a@x.com"),
             Sale(C_Membership, I_Unlimited, <<20, 2>>, Str(V_1200str), "NO",
                  "b@x.com", "") >>) }

Init == InitWith(Intakes, StaffChoices, FurtherBookings, SalesChoices)

Spec == Init /\ [][Next]_vars

(***************************************************************************)
(* Properties.                                                             *)
(***************************************************************************)
Done == pc = "done"

IsRollup(r) == r.teacherName = "All Teachers"
StaffCohorts(pd) == SelectSeq(pd, LAMBDA r : ~IsRollup(r))
Rollups(pd) == SelectSeq(pd, LAMBDA r : IsRollup(r))

SummedCounts ==
  {"newClients", "trials", "referrals", "hosted", "influencerSignups", "others",
   "retainedClients", "convertedClients", "totalRevenue"}

\* the sum of count f over the per-staff cohorts of pd at (location, period)
CohortSum(pd, location, period, f) ==
  SumSeq(MapSeq(SelectSeq(StaffCohorts(pd),
                          LAMBDA r : r.location = location /\ r.period = period),
                LAMBDA r : r[f]))

\* C1: in the result, every (location, period) that has a per-staff cohort has an
\* 'All Teachers' record for that location and period whose counts are the sums
\* of the counts of the per-staff cohorts of that location and period.
C1_RollupEqualsSumPerLocationPeriod ==
  Done =>
    \A i \in 1..Len(processedData) :
      ~IsRollup(processedData[i]) =>
        \E j \in 1..Len(processedData) :
          /\ IsRollup(processedData[j])
          /\ processedData[j].location = processedData[i].location
          /\ processedData[j].period = processedData[i].period
          /\ \A f \in SummedCounts :
               processedData[j][f] =
                 CohortSum(processedData, processedData[i].location,
                           processedData[i].period, f)

\* C2: when the sales dataset is empty or absent, normalising it raises nothing
\* (the stage can run), the run resolves with a result, every emitted record has
\* convertedClients = 0 and totalRevenue = 0, and every new-client detail
\* record is not_converted.
C2_EmptySalesNoConversions ==
  salesData = <<>> =>
    /\ pc = "clean" => ENABLED CleanData
    /\ Done => result # None
    /\ \A i \in 1..Len(processedData) :
         /\ processedData[i].convertedClients = 0
         /\ processedData[i].totalRevenue = 0
         /\ \A d \in 1..Len(processedData[i].newClientDetails) :
              processedData[i].newClientDetails[d].conversionStatus = "not_converted"
    /\ \A d \in 1..Len(newClientRecords) :
         newClientRecords[d].conversionStatus = "not_converted"

\* a run without a sales dataset that resolved with a cohort and its rollup
C2_Witness ==
  /\ Done
  /\ ~salesGiven
  /\ \E i, j \in 1..Len(processedData) :
       /\ ~IsRollup(processedData[i])
       /\ IsRollup(processedData[j])
       /\ processedData[i].newClients >= 1

(***************************************************************************)
(* Retention runs: one or two clients of one staff member and up to        *)
(* MaxVisits further bookings.                                             *)
(***************************************************************************)
RetentionIntakes ==
  LET a(label) == NewRec("a@x.com", <<5, 1>>, label, "Studio A", M_SingleClass)
      b == NewRec("b@x.com", <<10, 1>>, L_2For1Intro, "Studio A", K_Newcomers2For1)
  IN {<<a(l)>> : l \in {L_Barre57, L_2For1Intro, L_NEWCOMERS2FOR1}}
       \cup {<<a(l), b>> : l \in {L_Barre57, L_2For1Intro, L_NEWCOMERS2FOR1}}

VisitUniverse ==
  { Booking("a@x.com", <<12, 1>>, L_Barre57, "Studio A", "T1", "NO", "NO", "NO"),
    Booking("a@x.com", <<19, 1>>, L_Barre57, "Studio A", "T1", "NO", "NO", "NO"),
    Booking("a@x.com", <<26, 1>>, L_Barre57, "Studio B", "T2", "NO", "NO", "NO"),
    Booking("a@x.com", <<5, 1>>, L_HostedClass, "Studio A", "T1", "NO", "NO", "NO"),
    Booking("a@x.com", <<12, 1>>, L_Barre57, "Studio A", "T1", "YES", "NO", "NO"),
    Booking("a@x.com", <<13, 1>>, L_Barre57, "Studio A", "T1", "NO", "YES", "NO"),
    Booking("a@x.com", <<14, 1>>, L_Barre57, "Studio A", "T1", "NO", "NO", "YES"),
    Booking("b@x.com", <<12, 1>>, L_Barre57, "Studio A", "T1", "NO", "NO", "NO") }

RetentionSales ==
  { Given(<<>>),
    Given(<< Sale(C_Membership, I_10ClassPack, <<20, 1>>, Num(1200), "NO",
                  "a@x.com", "a@x.com") >>) }

InitRetention ==
  InitWith(RetentionIntakes, {"T1"}, SeqsUpTo(VisitUniverse, MaxVisits), RetentionSales)

SpecRetention == InitRetention /\ [][Next]_vars

\* the enriched intake record of a client
IntakeOf(email) ==
  enrichedNewData[CHOOSE i \in 1..Len(enrichedNewData) : enrichedNewData[i].Email = email]

\* label contains "2 for 1" in some letter case
Has2For1Marker(label) ==
  \E i \in 1..Len(label) :
    /\ i + 6 <= Len(label)
    /\ label[i] = "2" /\ label[i + 1] = " "
    /\ label[i + 2] \in {"f", "F"} /\ label[i + 3] \in {"o", "O"}
    /\ label[i + 4] \in {"r", "R"} /\ label[i + 5] = " " /\ label[i + 6] = "1"

\* bookings of the client after the first visit with the three flags negative
QualifyingReturnVisits(r) ==
  Cardinality({i \in 1..Len(cleanedBookingsData) :
    /\ cleanedBookingsData[i].CustomerEmail = r.Email
    /\ cleanedBookingsData[i].ClassDate > r.FirstVisitAt
    /\ cleanedBookingsData[i].Cancelled = "NO"
    /\ cleanedBookingsData[i].LateCancelled = "NO"
    /\ cleanedBookingsData[i].NoShow = "NO"})

MeetsThreshold(r) ==
  QualifyingReturnVisits(r) >= (IF Has2For1Marker(r.FirstVisit) THEN 2 ELSE 1)

DetailEmails(details) == {details[i].email : i \in 1..Len(details)}

\* C3: in every emitted per-staff cohort a member is in the retained list iff
\* its qualifying return visits reach its threshold (2 when its first-visit label
\* contains "2 for 1" in any letter case, 1 otherwise), and retainedClients is
\* the number of such members.
C3_RetentionThreshold ==
  \A i \in 1..Len(processedData) :
    ~IsRollup(processedData[i]) =>
      LET c == processedData[i]
          members == DetailEmails(c.newClientDetails)
      IN /\ \A e \in members :
              e \in DetailEmails(c.retainedClientDetails) <=> MeetsThreshold(IntakeOf(e))
         /\ c.retainedClients = Cardinality({e \in members : MeetsThreshold(IntakeOf(e))})

\* a "2 for 1" member with exactly one return visit is not retained beside a
\* member of the same cohort retained on one visit
C3_Witness ==
  \E i \in 1..Len(processedData) :
    LET c == processedData[i]
    IN /\ ~IsRollup(c)
       /\ \E e \in DetailEmails(c.newClientDetails) :
            /\ Has2For1Marker(IntakeOf(e).FirstVisit)
            /\ QualifyingReturnVisits(IntakeOf(e)) = 1
            /\ e \notin DetailEmails(c.retainedClientDetails)
       /\ \E e \in DetailEmails(c.newClientDetails) :
            /\ ~Has2For1Marker(IntakeOf(e).FirstVisit)
            /\ QualifyingReturnVisits(IntakeOf(e)) = 1
            /\ e \in DetailEmails(c.retainedClientDetails)

(***************************************************************************)
(* Conversion runs: one or two clients of one cohort (first visit on       *)
(* 10 January) and up to MaxSales sales.                                   *)
(***************************************************************************)
ConversionIntakes ==
  LET a == NewRec("a@x.com", <<10, 1>>, L_Barre57, "Studio A", M_SingleClass)
      b == NewRec("b@x.com", <<10, 1>>, L_Barre57, "Studio A", K_StudioOpenBarreClass)
  IN {<<a>>, <<a, b>>, <<b, a>>}

SaleUniverse ==
  { \* qualifying sales
    Sale(C_Membership, I_10ClassPack, <<20, 1>>, Num(1200), "NO", "a@x.com", "a@x.com"),
    Sale(C_Membership, I_Unlimited, <<10, 1>>, Str(V_1000_00), "NO", "a@x.com", ""),
    Sale(C_Membership, I_10ClassPack, <<20, 1>>, Str(V_1200str), "NO", "c@x.com", "a@x.com"),
    Sale(C_Membership, I_Unlimited, <<25, 1>>, Num(1500), "NO", "b@x.com", "a@x.com"),
    \* one condition fails
    Sale(C_Membership, I_10ClassPack, <<9, 1>>, Num(1200), "NO", "a@x.com", "a@x.com"),
    Sale(C_Membership, I_10ClassPack, <<>>, Num(1200), "NO", "a@x.com", "a@x.com"),
    Sale(C_RETAIL, I_10ClassPack, <<20, 1>>, Num(1200), "NO", "a@x.com", "a@x.com"),
    Sale(C_Membership, I_2For1, <<20, 1>>, Num(1200), "NO", "a@x.com", "a@x.com"),
    Sale(C_Membership, I_10ClassPack, <<20, 1>>, Str(V_999str), "", "a@x.com", "a@x.com"),
    Sale(C_Membership, I_10ClassPack, <<20, 1>>, Num(1200), "YES", "a@x.com", "a@x.com"),
    \* several conditions fail
    Sale(C_Product, I_2For1, <<9, 1>>, Num(500), "YES", "a@x.com", "a@x.com"),
    Sale(C_MoneyCredits, I_10ClassPack, <<20, 1>>, Str(V_dash), "YES", "b@x.com", "b@x.com"),
    \* a category that holds "money-credit" but not "money-credits"
    Sale(C_MoneyCredit, I_10ClassPack, <<20, 1>>, Num(1200), "NO", "a@x.com", "a@x.com"),
    \* a sale of nobody in the cohort
    Sale(C_Membership, I_10ClassPack, <<20, 1>>, Num(1200), "NO", "c@x.com", "") }

\* a return visit taught by a second staff member, who has no new client
ConversionVisits ==
  { << Booking("a@x.com", <<12, 1>>, L_Barre57, "Studio A", "T2", "NO", "NO", "NO") >> }

InitConversion ==
  InitWith(ConversionIntakes, {"T1"}, ConversionVisits,
           {Given(rows) : rows \in SeqsUpTo(SaleUniverse, MaxSales)})

SpecConversion == InitConversion /\ [][Next]_vars

\* the filter callback is about to run on the sale at position si
Scanning == pc = "sales" /\ si <= Len(cleanedSalesData)
ScannedSale == cleanedSalesData[si]

\* the cohort member the scanned sale is matched to: the first member, in
\* cohort order, whose email is the sale's customer or payer email
Matched == \E i \in 1..Len(cur.clients) :
             cur.clients[i].Email \in {ScannedSale.CustomerEmail, ScannedSale.PayingCustomerEmail}
MatchedMember ==
  cur.clients[CHOOSE i \in 1..Len(cur.clients) :
    /\ cur.clients[i].Email \in {ScannedSale.CustomerEmail, ScannedSale.PayingCustomerEmail}
    /\ \A j \in 1..(i - 1) :
         cur.clients[j].Email \notin {ScannedSale.CustomerEmail, ScannedSale.PayingCustomerEmail}]

ConvertedEmails(map) == {e \in DOMAIN map : map[e].isConverted}

\* the conversion outcome of the cohort is what it was before the step
NoConversionEffect ==
  /\ ConvertedEmails(cur'.map) = ConvertedEmails(cur.map)
  /\ cur'.convertedClients = cur.convertedClients
  /\ convertedClientRecords' = convertedClientRecords

\* C4: scanning a sale whose normalized value is below 1000 converts nobody and
\* adds nothing to the cohort's converted sales; no sale below 1000 is among a
\* cohort's converted sales or attributed to a member, and every emitted
\* record's totalRevenue is at least 1000 per converted client.
C4_BelowMinimumNeverConverts ==
  /\ [][(Scanning /\ ScannedSale.SaleValue < 1000) => NoConversionEffect]_vars
  /\ [](/\ \A i \in 1..Len(cur.convertedClients) : cur.convertedClients[i].SaleValue >= 1000
        /\ \A e \in DOMAIN cur.map :
             cur.map[e].isConverted => cur.map[e].purchaseValue[1] >= 1000
        /\ \A i \in 1..Len(processedData) :
             /\ processedData[i].totalRevenue >= 1000 * processedData[i].convertedClients
             /\ \A d \in 1..Len(processedData[i].newClientDetails) :
                  LET n == processedData[i].newClientDetails[d]
                  IN n.conversionStatus = "converted" => n.purchaseValue[1] >= 1000)

\* a matched sale of 999, written as a currency string, has been scanned after a
\* qualifying one, and the member's attribution is still the qualifying sale
C4_Witness ==
  /\ pc = "sales"
  /\ si = 3
  /\ salesData[2].SaleValue = Str(V_999str)
  /\ cleanedSalesData[2].SaleValue = 999
  /\ cur.map["a@x.com"].isConverted
  /\ Len(cur.convertedClients) = 1

\* the scanned sale has been kept by the filter: it is the new last converted sale
SaleKept ==
  /\ cur'.convertedClients = Append(cur.convertedClients, ScannedSale)
  /\ Len(convertedClientRecords') = Len(convertedClientRecords) + 1

\* the four conditions other than timing (the model's tests of the code)
OtherFourHold(sale) ==
  /\ NotExcludedCategory(sale)
  /\ Not2For1Item(sale)
  /\ HasMinimumSaleValue(sale)
  /\ NotRefunded(sale)

\* C5: a matched sale dated strictly before the member's first visit has no
\* conversion effect whatever its other fields; a matched sale that passes the
\* other four conditions is kept iff its date is on or after the first-visit
\* date, the first-visit date itself included.
C5_SaleBeforeFirstVisitNeverQualifies ==
  [][(Scanning /\ Matched) =>
       /\ (ScannedSale.Date # 0 /\ ScannedSale.Date < MatchedMember.FirstVisitAt) =>
            NoConversionEffect
       /\ OtherFourHold(ScannedSale) =>
            (SaleKept <=> (ScannedSale.Date # 0
                           /\ ScannedSale.Date >= MatchedMember.FirstVisitAt))]_vars

\* a member converted by a sale dated on the day of the first visit
C5_Witness ==
  /\ pc = "sales"
  /\ \E e \in DOMAIN cur.map :
       /\ cur.map[e].isConverted
       /\ cur.map[e].firstPurchaseDate = Some(IntakeOf(e).FirstVisitAt)

(***************************************************************************)
(* Re-invocation.  processData keeps nothing outside the call: the caller  *)
(* that invokes it again on the same three datasets starts a new promise   *)
(* whose timers rebuild every intermediate from the inputs.  `result` keeps *)
(* what the previous call resolved with, for comparison.                   *)
(***************************************************************************)
Rerun ==
  /\ pc = "done"
  /\ pc' = "start"
  /\ progressLog' = <<>>
  /\ UNCHANGED <<inputs, cleaned, enrichedNewData, keys, processedData, studioData,
                 audit, k, cur, si, result>>

NextRerun == Next \/ Rerun

SpecRerun == Init /\ [][NextRerun]_vars

QualifiesFor(sale, e, clients) ==
  LET m == MatchingClient(sale, clients)
  IN m # 0 /\ clients[m].Email = e /\ IsConverted(sale, clients[m])

\* position of the first sale of the dataset that qualifies for e, 0 if none
FirstQualifying(e, clients) ==
  FindIndex(cleanedSalesData, LAMBDA s : QualifiesFor(s, e, clients))

\* the members of an emitted cohort, in cohort order
MembersOf(c) == MapSeq(c.newClientDetails, LAMBDA d : IntakeOf(d.email))

\* C7: within one cohort's scan a member becomes converted exactly at the first
\* sale of the dataset that qualifies for it, with that sale's date, item and
\* value; once converted its status record never changes during the scan; the
\* emitted new-client detail carries the first qualifying sale's attribution.
C7_FirstQualifyingSaleWins ==
  /\ [][(pc = "sales" /\ pc' = "sales") =>
          \A e \in DOMAIN cur.map :
            /\ cur.map[e].isConverted => cur'.map[e] = cur.map[e]
            /\ (~cur.map[e].isConverted /\ cur'.map[e].isConverted) =>
                 /\ si = FirstQualifying(e, cur.clients)
                 /\ cur'.map[e].firstPurchaseDate = Some(ScannedSale.Date)
                 /\ cur'.map[e].firstPurchaseItem = Some(ScannedSale.Item)
                 /\ cur'.map[e].purchaseValue = Some(ScannedSale.SaleValue)
            /\ (Scanning /\ si = FirstQualifying(e, cur.clients)) => cur'.map[e].isConverted]_vars
  /\ [](\A i \in 1..Len(processedData) :
          ~IsRollup(processedData[i]) =>
            \A d \in 1..Len(processedData[i].newClientDetails) :
              LET n == processedData[i].newClientDetails[d]
                  f == FirstQualifying(n.email, MembersOf(processedData[i]))
              IN /\ n.conversionStatus = "converted" <=> f # 0
                 /\ f # 0 =>
                      /\ n.firstPurchaseDate = Some(cleanedSalesData[f].Date)
                      /\ n.firstPurchaseItem = Some(cleanedSalesData[f].Item)
                      /\ n.purchaseValue = Some(cleanedSalesData[f].SaleValue))

\* after a qualifying sale of 1000 on 10 January a second qualifying sale of the
\* same member, larger (1200) or dated earlier than the first, has been scanned
C7_Witness ==
  /\ pc = "sales"
  /\ si = 3
  /\ QualifiesFor(cleanedSalesData[1], "a@x.com", cur.clients)
  /\ QualifiesFor(cleanedSalesData[2], "a@x.com", cur.clients)
  /\ \/ cleanedSalesData[2].SaleValue > cleanedSalesData[1].SaleValue
     \/ cleanedSalesData[2].Date < cleanedSalesData[1].Date
  /\ cur.map["a@x.com"].purchaseValue = Some(cleanedSalesData[1].SaleValue)
  /\ cur.map["a@x.com"].firstPurchaseDate = Some(cleanedSalesData[1].Date)

\* text holds word, letter case ignored
HoldsWord(text, word) ==
  \E i \in 1..Len(text) :
    /\ i + Len(word) - 1 <= Len(text)
    /\ \A j \in 1..Len(word) : ToLowerChar(text[i + j - 1]) = ToLowerChar(word[j])

\* the five conditions of a sale for a member, with the category words given
TimingHolds(sale, member) == sale.Date # 0 /\ sale.Date >= member.FirstVisitAt
CategoryHolds(sale, words) == \A w \in words : ~HoldsWord(sale.Category, w)
ItemHolds(sale) == ~HoldsWord(sale.Item, K_2for1)
ValueHolds(sale) == sale.SaleValue >= 1000
RefundHolds(sale) == sale.Refunded # "YES"

AllFiveHold(sale, member, words) ==
  /\ TimingHolds(sale, member)
  /\ CategoryHolds(sale, words)
  /\ ItemHolds(sale)
  /\ ValueHolds(sale)
  /\ RefundHolds(sale)

\* the reason of a non-qualifying sale: its first failing condition in the order
\* date, category, item, value, refund
FirstFailing(sale, member) ==
  IF ~TimingHolds(sale, member)
    THEN [kind |-> "date", saleDate |-> sale.Date, firstVisitDate |-> member.FirstVisitAt]
  ELSE IF ~CategoryHolds(sale, {K_moneyCredits, K_retail, K_product})
    THEN [kind |-> "category", category |-> sale.Category]
  ELSE IF ~ItemHolds(sale) THEN [kind |-> "item", item |-> sale.Item]
  ELSE IF ~ValueHolds(sale) THEN [kind |-> "value", saleValue |-> sale.SaleValue]
  ELSE [kind |-> "refunded", item |-> sale.Item]

\* C8: scanning a non-qualifying sale matched to a member keeps the converted
\* sales and every other member's status as they are; the matched member's status
\* is unchanged when it is converted, and otherwise changes in its reason only,
\* which becomes this sale's first failing condition in the order date, category,
\* item, value, refund.
C8_NonQualifyingSaleUpdatesReasonOnly ==
  [][(Scanning /\ Matched /\ ~IsConverted(ScannedSale, MatchedMember)) =>
       /\ NoConversionEffect
       /\ DOMAIN cur'.map = DOMAIN cur.map
       /\ \A e \in DOMAIN cur.map :
            IF e = MatchedMember.Email /\ ~cur.map[e].isConverted
            THEN cur'.map[e] =
                   [cur.map[e] EXCEPT !.reason = FirstFailing(ScannedSale, MatchedMember)]
            ELSE cur'.map[e] = cur.map[e]]_vars

\* two non-qualifying sales of one member of a two-member cohort have been
\* scanned, the first failing on another condition and the second on its value
\* (999): the member's reason is the second sale's and the other member's status
\* is the initial one
C8_Witness ==
  /\ pc = "sales"
  /\ si = 3
  /\ Len(cur.clients) = 2
  /\ MatchingClient(cleanedSalesData[1], cur.clients) = MatchingClient(cleanedSalesData[2], cur.clients)
  /\ MatchingClient(cleanedSalesData[2], cur.clients) # 0
  /\ LET e == cur.clients[MatchingClient(cleanedSalesData[2], cur.clients)].Email
     IN /\ ~cur.map[e].isConverted
        /\ cur.map[e].reason = [kind |-> "value", saleValue |-> 999]
        /\ cleanedSalesData[1].SaleValue = 1200
        /\ \E o \in DOMAIN cur.map : o # e /\ cur.map[o] = InitialStatus

\* C9 as stated: a matched sale is kept iff the five conditions hold, the
\* excluded category words being money-credit, retail and product.
C9_QualifiesIffFiveConditions_AsStated ==
  [][(Scanning /\ Matched) =>
       (SaleKept <=>
          AllFiveHold(ScannedSale, MatchedMember,
                      {SubSeq(K_moneyCredits, 1, 12), K_retail, K_product}))]_vars

\* C9 amended: a matched sale is kept, and converts its member when the member
\* is not yet converted, iff the five conditions hold, the excluded category
\* words being money-credits, retail and product; otherwise it has no conversion
\* effect.
C9_QualifiesIffFiveConditions ==
  [][(Scanning /\ Matched) =>
       IF AllFiveHold(ScannedSale, MatchedMember, {K_moneyCredits, K_retail, K_product})
       THEN SaleKept /\ cur'.map[MatchedMember.Email].isConverted
       ELSE NoConversionEffect]_vars

\* a refunded sale, a retail sale and a "2 for 1" item, each passing the other
\* four conditions, have been scanned for a member that is still not converted
C9_Witness ==
  /\ pc = "sales"
  /\ si > Len(cleanedSalesData)
  /\ Len(cleanedSalesData) >= 1
  /\ \A i \in 1..Len(cleanedSalesData) :
       /\ MatchingClient(cleanedSalesData[i], cur.clients) # 0
       /\ cleanedSalesData[i].Date >= 110
       /\ cleanedSalesData[i].SaleValue >= 1000
       /\ \/ cleanedSalesData[i].Refunded = "YES"
          \/ cleanedSalesData[i].Category = C_RETAIL
          \/ cleanedSalesData[i].Item = I_2For1
  /\ cur.convertedClients = <<>>
  /\ \A e \in DOMAIN cur.map : ~cur.map[e].isConverted

\* the emails of the members of an emitted cohort whose status is converted
ConvertedMembers(c) ==
  {c.newClientDetails[d].email : d \in
     {x \in 1..Len(c.newClientDetails) :
        c.newClientDetails[x].conversionStatus = "converted"}}

\* C10: every emitted per-staff cohort's convertedClients is the number of
\* distinct member emails whose status is converted, and does not exceed
\* newClients.
C10_ConvertedCountIsConvertedMembers ==
  \A i \in 1..Len(processedData) :
    ~IsRollup(processedData[i]) =>
      /\ processedData[i].convertedClients =
           Cardinality(ConvertedMembers(processedData[i]))
      /\ processedData[i].convertedClients <= processedData[i].newClients

\* the sales of the dataset that qualify for a member of an emitted cohort
QualifyingSalesOf(c) ==
  SelectSeq(cleanedSalesData, LAMBDA s :
    \E d \in 1..Len(c.newClientDetails) :
      QualifiesFor(s, c.newClientDetails[d].email, MembersOf(c)))

\* C11: an emitted per-staff cohort's totalRevenue is the sum of the values of
\* all sales that qualify for its members, every qualifying sale of one member
\* included, while each converted member's new-client detail carries the value
\* of the member's first qualifying sale only.
C11_RevenueDualSemantics ==
  \A i \in 1..Len(processedData) :
    ~IsRollup(processedData[i]) =>
      LET c == processedData[i]
          q == QualifyingSalesOf(c)
      IN /\ c.totalRevenue = SumSeq([j \in 1..Len(q) |-> q[j].SaleValue])
         /\ \A d \in 1..Len(c.newClientDetails) :
              LET n == c.newClientDetails[d]
                  f == FirstQualifying(n.email, MembersOf(c))
              IN n.purchaseValue =
                   IF f = 0 THEN None ELSE Some(cleanedSalesData[f].SaleValue)

\* an emitted cohort with a member that has two qualifying sales of different
\* values: both are in totalRevenue, the first alone is in the member's detail
C11_Witness ==
  \E i \in 1..Len(processedData) :
    LET c == processedData[i]
    IN /\ ~IsRollup(c)
       /\ Len(cleanedSalesData) = 2
       /\ QualifiesFor(cleanedSalesData[1], "a@x.com", MembersOf(c))
       /\ QualifiesFor(cleanedSalesData[2], "a@x.com", MembersOf(c))
       /\ cleanedSalesData[1].SaleValue # cleanedSalesData[2].SaleValue
       /\ c.totalRevenue = cleanedSalesData[1].SaleValue + cleanedSalesData[2].SaleValue
       /\ \E d \in 1..Len(c.newClientDetails) :
            /\ c.newClientDetails[d].email = "a@x.com"
            /\ c.newClientDetails[d].purchaseValue = Some(cleanedSalesData[1].SaleValue)

\* a rate <<numerator, denominator>> lies in [0, 100]
InPercentRange(r) == r[2] > 0 /\ 0 <= r[1] /\ r[1] <= 100 * r[2]

\* the eight rates of an emitted record
RatesOf(r) ==
  << r.retentionRate, r.conversionRate, r.noShowRate, r.lateCancellationRate,
     r.firstTimeBuyerRate, r.influencerConversionRate, r.referralConversionRate,
     r.trialToMembershipConversion >>

\* C12: every rate of every emitted record, per-staff cohort or rollup, lies in
\* [0, 100].
C12_RatesWithinPercentRange ==
  \A i \in 1..Len(processedData) :
    \A j \in 1..8 : InPercentRange(RatesOf(processedData[i])[j])

\* the rate is the number 0, the result of no division by zero
IsZero(r) == r[1] = 0 /\ r[2] > 0

\* the attendance rows behind an emitted record's no-show and late-cancellation
\* rates: those of the cohort's staff member, location and period
AttendanceRowsOf(r) ==
  Len(SelectSeq(cleanedBookingsData, LAMBDA b :
        /\ b.Teacher = r.teacherName
        /\ b.Location = r.location
        /\ GetMonthYearFromDate(b.ClassDate) = r.period))

\* C13: in every emitted record, per-staff cohort or rollup, a rate or average
\* whose denominator is zero is exactly 0: no new clients, no attendance rows, no
\* member of a channel, no converted client; and the run resolves.
C13_ZeroDenominatorGivesZero ==
  /\ Done => result # None
  /\ \A i \in 1..Len(processedData) :
       LET r == processedData[i]
       IN /\ r.newClients = 0 =>
               IsZero(r.retentionRate) /\ IsZero(r.conversionRate)
               /\ IsZero(r.firstTimeBuyerRate)
          /\ r.convertedClients = 0 => IsZero(r.averageRevenuePerClient)
          /\ r.trials = 0 => IsZero(r.trialToMembershipConversion)
          /\ r.referrals = 0 => IsZero(r.referralConversionRate)
          /\ r.influencerSignups = 0 => IsZero(r.influencerConversionRate)
          /\ AttendanceRowsOf(r) = 0 =>
               IsZero(r.noShowRate) /\ IsZero(r.lateCancellationRate)

\* a resolved run with a per-staff cohort and a rollup that have no converted
\* client and no member in the trial, referral or influencer channel
C13_Witness ==
  /\ Done
  /\ \E i, j \in 1..Len(processedData) :
       /\ ~IsRollup(processedData[i])
       /\ IsRollup(processedData[j])
       /\ \A x \in {i, j} :
            /\ processedData[x].newClients >= 1
            /\ processedData[x].convertedClients = 0
            /\ processedData[x].trials = 0
            /\ processedData[x].referrals = 0
            /\ processedData[x].influencerSignups = 0
            /\ IsZero(processedData[x].averageRevenuePerClient)
            /\ IsZero(processedData[x].trialToMembershipConversion)

\* the one channel of a member: the first that matches in the order trial,
\* referral, hosted, influencer, else other
ChannelOf(r) ==
  IF IsTrial(r) THEN "trials"
  ELSE IF IsReferral(r) THEN "referrals"
  ELSE IF IsHosted(r) THEN "hosted"
  ELSE IF IsInfluencer(r) THEN "influencerSignups"
  ELSE "others"

Channels == {"trials", "referrals", "hosted", "influencerSignups", "others"}

\* C14: in every emitted per-staff cohort each of trials, referrals, hosted,
\* influencerSignups and others is the number of members whose one channel it
\* is, so each count is >= 0 and the five sum to newClients.
C14_ChannelsMutuallyExclusive ==
  \A i \in 1..Len(processedData) :
    ~IsRollup(processedData[i]) =>
      LET c == processedData[i]
          members == MembersOf(c)
      IN /\ \A ch \in Channels :
              /\ c[ch] >= 0
              /\ c[ch] = Cardinality({m \in 1..Len(members) : ChannelOf(members[m]) = ch})
         /\ c.trials + c.referrals + c.hosted + c.influencerSignups + c.others
              = c.newClients

\* the rate r is n/d*100, or 0 when d is zero
IsRateOf(r, n, d) ==
  /\ r[2] > 0
  /\ IF d > 0 THEN r[1] * d = n * 100 * r[2] ELSE r[1] = 0

\* C15: in the result every rollup's retentionRate, conversionRate and
\* firstTimeBuyerRate are recomputed from its summed counts, firstTimeBuyerRate
\* equals conversionRate in every emitted record, and a rollup with no-shows or
\* late cancellations has a non-zero no-show or late-cancellation rate.
C15_RollupRatesRecomputed ==
  Done =>
    \A i \in 1..Len(processedData) :
      LET r == processedData[i]
      IN /\ r.firstTimeBuyerRate[1] * r.conversionRate[2]
              = r.conversionRate[1] * r.firstTimeBuyerRate[2]
         /\ IsRollup(r) =>
              /\ IsRateOf(r.retentionRate, r.retainedClients, r.newClients)
              /\ IsRateOf(r.conversionRate, r.convertedClients, r.newClients)
              /\ IsRateOf(r.firstTimeBuyerRate, r.convertedClients, r.newClients)
              /\ r.noShows > 0 => r.noShowRate[1] > 0
              /\ r.lateCancellations > 0 => r.lateCancellationRate[1] > 0

\* booking b is after the first visit of member r and none of its flags is set
AfterFirstVisitAndAttended(b, r) ==
  /\ b.CustomerEmail = r.Email
  /\ b.ClassDate > r.FirstVisitAt
  /\ b.Cancelled # "YES" /\ b.LateCancelled # "YES" /\ b.NoShow # "YES"

\* C16: every return visit of the cohort being processed is a booking of one of
\* its members dated strictly after that member's first visit with the
\* cancelled, late-cancelled and no-show flags all negative; a member of an
\* emitted cohort with no such booking is not retained.
C16_ReturnVisitNeedsLaterDateAndNoFlag ==
  /\ pc = "sales" =>
       \A v \in 1..Len(cur.returnVisits) :
         \E m \in 1..Len(cur.clients) :
           AfterFirstVisitAndAttended(cur.returnVisits[v], cur.clients[m])
  /\ \A i \in 1..Len(processedData) :
       ~IsRollup(processedData[i]) =>
         \A d \in 1..Len(processedData[i].retainedClientDetails) :
           LET e == processedData[i].retainedClientDetails[d].email
           IN \E b \in 1..Len(cleanedBookingsData) :
                AfterFirstVisitAndAttended(cleanedBookingsData[b], IntakeOf(e))

\* a cohort whose member has, beside the first-visit booking, a booking with a
\* flag set and either a booking on the first-visit day or a second flagged
\* booking: the cohort has no return visit and nobody is retained
C16_Witness ==
  /\ pc = "sales"
  /\ Len(cur.clients) = 1
  /\ Len(cleanedBookingsData) = 3
  /\ \A b \in 2..3 :
       /\ cleanedBookingsData[b].CustomerEmail = cur.clients[1].Email
       /\ cleanedBookingsData[b].Teacher = cur.teacher
       /\ \/ cleanedBookingsData[b].ClassDate = cur.clients[1].FirstVisitAt
          \/ "YES" \in {cleanedBookingsData[b].Cancelled,
                        cleanedBookingsData[b].LateCancelled,
                        cleanedBookingsData[b].NoShow}
  /\ \E b \in 2..3 : cleanedBookingsData[b].NoShow = "YES"
  /\ cur.returnVisits = <<>>
  /\ cur.retainedEmails = <<>>

\* C17: every return visit of the cohort being processed is an attendance
\* record of the cohort's staff member, location and period, and a retained
\* member of an emitted cohort has such a record after its first visit.
C17_ReturnVisitsWithinCohortScope ==
  /\ pc = "sales" =>
       \A v \in 1..Len(cur.returnVisits) :
         /\ cur.returnVisits[v].Teacher = cur.teacher
         /\ cur.returnVisits[v].Location = cur.location
         /\ GetMonthYearFromDate(cur.returnVisits[v].ClassDate) = cur.period
  /\ \A i \in 1..Len(processedData) :
       ~IsRollup(processedData[i]) =>
         \A d \in 1..Len(processedData[i].retainedClientDetails) :
           LET e == processedData[i].retainedClientDetails[d].email
           IN \E b \in 1..Len(cleanedBookingsData) :
                /\ AfterFirstVisitAndAttended(cleanedBookingsData[b], IntakeOf(e))
                /\ cleanedBookingsData[b].Teacher = processedData[i].teacherName
                /\ cleanedBookingsData[b].Location = processedData[i].location
                /\ GetMonthYearFromDate(cleanedBookingsData[b].ClassDate)
                     = processedData[i].period

(***************************************************************************)
(* Runs for exclusion and identity linkage: intake records with and        *)
(* without exclusion keywords, linked to a staff member, to a booking      *)
(* whose staff name is 'Unknown', or to no booking; one sale names an      *)
(* excluded client as customer and a cohort member as payer.               *)
(***************************************************************************)
LinkageIntakeUniverse ==
  { NewRec("a@x.com", <<10, 1>>, L_Barre57, "Studio A", M_SingleClass),
    NewRec("b@x.com", <<10, 1>>, L_Barre57, "Studio A", M_SingleClass),
    NewRec("b@x.com", <<10, 1>>, L_StaffClass, "Studio A", M_SingleClass),
    NewRec("b@x.com", <<10, 1>>, L_StaffClass, "Studio A", M_FriendsFamily),
    NewRec("c@x.com", <<10, 1>>, L_Barre57, "Studio A", M_FriendsFamily) }

LinkageIntakes == {nd \in SeqsUpTo(LinkageIntakeUniverse, MaxNew) : DistinctEmails(nd)}

LinkageStaff == {"T1", "Unknown", ""}

LinkageSales ==
  { Given(<<>>),
    Given(<< Sale(C_Membership, I_10ClassPack, <<20, 1>>, Num(1200), "NO",
                  "a@x.com", "a@x.com") >>),
    Given(<< Sale(C_Membership, I_10ClassPack, <<20, 1>>, Num(1200), "NO",
                  "c@x.com", "a@x.com") >>) }

InitLinkage == InitWith(LinkageIntakes, LinkageStaff, {<<>>}, LinkageSales)

SpecLinkage == InitLinkage /\ [][Next]_vars

\* the label holds one of the exclusion keywords, letter case ignored
HoldsExclusionKeyword(label) ==
  \E w \in {K_friends, K_family, K_staff} : HoldsWord(label, w)

ExcludedIntake(r) ==
  HoldsExclusionKeyword(r.MembershipUsed) \/ HoldsExclusionKeyword(r.FirstVisit)

ExcludedEmails ==
  {enrichedNewData[i].Email : i \in {j \in 1..Len(enrichedNewData) :
                                       ExcludedIntake(enrichedNewData[j])}}

ScanDone == pc \in {"cohort", "sales", "done"}

\* C18: once the exclusion scan has run, an intake record is in excludedRecords
\* iff one of its two labels holds an exclusion keyword, then exactly once and
\* with a reason naming the membership label when that label matched and the
\* class label otherwise; no excluded record is among includedRecords or among
\* the new, retained or converted details of an emitted record, and newClients
\* counts the new-client details only.
C18_ExcludedRecordsNeverInCohorts ==
  /\ ScanDone =>
       /\ \A i \in 1..Len(enrichedNewData) :
            LET r == enrichedNewData[i]
                listed == {j \in 1..Len(excludedRecords) :
                             excludedRecords[j].Email = r.Email}
            IN IF ExcludedIntake(r)
               THEN /\ Cardinality(listed) = 1
                    /\ \A j \in listed :
                         excludedRecords[j].reason =
                           IF HoldsExclusionKeyword(r.MembershipUsed)
                           THEN [kind |-> "membership", label |-> r.MembershipUsed]
                           ELSE [kind |-> "class", label |-> r.FirstVisit]
               ELSE listed = {}
       /\ \A i \in 1..Len(includedRecords) : includedRecords[i].Email \notin ExcludedEmails
       /\ pc = "sales" =>
            \A m \in 1..Len(cur.clients) : cur.clients[m].Email \notin ExcludedEmails
  /\ \A i \in 1..Len(processedData) :
       LET r == processedData[i]
       IN /\ r.newClients = Len(r.newClientDetails)
          /\ DetailEmails(r.newClientDetails) \cap ExcludedEmails = {}
          /\ DetailEmails(r.retainedClientDetails) \cap ExcludedEmails = {}
          /\ DetailEmails(r.convertedClientDetails) \cap ExcludedEmails = {}

\* C19: every emitted record, per-staff cohort or rollup, has newClients >= 1
\* and as many new-client details as newClients.
C19_NoEmptyCohortEmitted ==
  \A i \in 1..Len(processedData) :
    /\ processedData[i].newClients >= 1
    /\ processedData[i].newClients = Len(processedData[i].newClientDetails)

\* a resolved run that enumerated more triples than it emitted per-staff
\* cohorts, and emitted at least one cohort and its rollup
C19_Witness ==
  /\ Done
  /\ Len(StaffCohorts(processedData)) >= 1
  /\ Len(Rollups(processedData)) >= 1
  /\ NumTriples > Len(StaffCohorts(processedData))

\* the attendance rows that link intake record r: same email, class name, date
\* and location
LinkingRows(r) ==
  {b \in 1..Len(cleanedBookingsData) :
     /\ cleanedBookingsData[b].CustomerEmail = r.Email
     /\ cleanedBookingsData[b].ClassName = r.FirstVisit
     /\ cleanedBookingsData[b].ClassDate = r.FirstVisitAt
     /\ cleanedBookingsData[b].Location = r.FirstVisitLocation}

\* r fails identity linkage: no row links it, or the first that does carries the
\* staff name 'Unknown'
FailsLinkage(r) ==
  \/ LinkingRows(r) = {}
  \/ \E b \in LinkingRows(r) :
       /\ \A x \in LinkingRows(r) : b <= x
       /\ cleanedBookingsData[b].Teacher = "Unknown"

UnlinkedEmails ==
  {cleanedNewData[i].Email : i \in {j \in 1..Len(cleanedNewData) :
                                      FailsLinkage(cleanedNewData[j])}}

Linked == pc \notin {"start", "clean", "link"}

AuditEmails(list) == {list[i].Email : i \in 1..Len(list)}

\* C21: in the result every enriched intake record is in includedRecords or in
\* excludedRecords.
C21_AuditListsCoverIntake ==
  Done =>
    \A i \in 1..Len(enrichedNewData) :
      enrichedNewData[i].Email \in
        AuditEmails(result[1].includedRecords) \cup AuditEmails(result[1].excludedRecords)

(***************************************************************************)
(* Runs for the identity linker: one intake record and attendance rows     *)
(* that equal it on all four fields or on three of them, with different    *)
(* staff members.                                                          *)
(***************************************************************************)
InitLinker ==
  LET a == NewRec("a@x.com", <<10, 1>>, L_Barre57Padded, "Studio A", M_SingleClass)
      row(email, date, class, location, teacher) ==
        Booking(email, date, class, location, teacher, "NO", "NO", "NO")
      rows == { row("a@x.com", <<10, 1>>, L_Barre57, "Studio A", "T1"),
                row("a@x.com", <<10, 1>>, L_Barre57Padded, "Studio A", "T2"),
                row("b@x.com", <<10, 1>>, L_Barre57, "Studio A", "T3"),
                row("a@x.com", <<11, 1>>, L_Barre57, "Studio A", "T3"),
                row("a@x.com", <<10, 1>>, L_HostedClass, "Studio A", "T3"),
                row("a@x.com", <<10, 1>>, L_Barre57, "Studio B", "T3") }
  IN InitWith({<<a>>}, {""}, SeqsUpTo(rows, MaxVisits + 1),
              {Given(<< Sale(C_Membership, I_10ClassPack, <<20, 1>>, Num(1200), "NO",
                             "a@x.com", "a@x.com") >>)})

SpecLinker == InitLinker /\ [][Next]_vars

\* C22: after linkage each intake record carries the staff member of the first
\* attendance row, in dataset order, that equals it on customer email, class
\* label, class date and location, and 'Unknown' when no row equals it on all
\* four; its other fields are those of the normalized record.
C22_LinkerFirstFullMatchWins ==
  Linked =>
    /\ Len(enrichedNewData) = Len(cleanedNewData)
    /\ \A i \in 1..Len(enrichedNewData) :
         LET r == cleanedNewData[i]
         IN /\ \A f \in DOMAIN r : enrichedNewData[i][f] = r[f]
            /\ IF LinkingRows(r) = {}
               THEN enrichedNewData[i].Teacher = "Unknown"
               ELSE \E b \in LinkingRows(r) :
                      /\ \A x \in LinkingRows(r) : b <= x
                      /\ enrichedNewData[i].Teacher = cleanedBookingsData[b].Teacher

\* the intake record is linked to T1 by the second of three rows: the first
\* differs from it in one field only and the third equals it on all four but
\* names another staff member
C22_Witness ==
  /\ Linked
  /\ Len(cleanedBookingsData) = 3
  /\ cleanedBookingsData[1].Teacher = "T3"
  /\ cleanedBookingsData[2].Teacher = "T1"
  /\ cleanedBookingsData[3].Teacher = "T2"
  /\ LinkingRows(cleanedNewData[1]) = {2, 3}
  /\ enrichedNewData[1].Teacher = "T1"

(***************************************************************************)
(* Faults.  processData builds its promise with an executor that takes     *)
(* `resolve` only and holds no try/catch.  An exception thrown in the      *)
(* executor itself rejects the promise (the Promise constructor catches    *)
(* it); one thrown inside a setTimeout callback is an uncaught error of    *)
(* that callback: the rest of the callback, the next timer included, never *)
(* runs and nothing settles the promise.  The values computed by the       *)
(* callback that threw are locals nobody can reach, so the variables are   *)
(* left as they were.                                                      *)
(***************************************************************************)
\* formatDateString / cleanFirstVisitValue (Step 1), getMonthYearFromDate
\* (Step 3), matchesPattern / isDateAfter (Step 4) throws: all calls are inside
\* timer callbacks
CollaboratorThrows ==
  /\ pc \in {"clean", "keys", "metrics", "cohort", "sales"}
  /\ pc' = "collaborator_threw"
  /\ UNCHANGED <<inputs, cleaned, enrichedNewData, keys, progressLog, processedData,
                 studioData, audit, k, cur, si, result>>

\* updateProgress throws: at 5 in the executor, at 20, 40, 60, 80 and 100 inside
\* a timer callback (100 is reported before resolve is called)
CallbackThrows ==
  /\ \/ pc \in {"start", "clean", "link", "keys"}
     \/ pc = "cohort" /\ k <= NumTriples
          /\ HasNewClients(TeacherNewClients(enrichedNewData, TripleAt(k).teacher,
                                             TripleAt(k).location, TripleAt(k).period))
     \/ pc = "cohort" /\ k > NumTriples
  /\ pc' = IF pc = "start" THEN "rejected" ELSE "callback_threw"
  /\ UNCHANGED <<inputs, cleaned, enrichedNewData, keys, progressLog, processedData,
                 studioData, audit, k, cur, si, result>>

NextFaulty == Next \/ CollaboratorThrows \/ CallbackThrows

SpecFaulty == InitLinkage /\ [][NextFaulty]_vars

\* the state of the promise returned by processData
PromiseState ==
  IF result # None THEN "resolved"
  ELSE IF pc = "rejected" THEN "rejected"
  ELSE "pending"

\* C23: once a collaborator primitive has thrown in a stage of the run, the
\* promise is rejected: it is neither resolved nor pending with no timer left
\* to settle it.
C23_FaultRejectsPromise ==
  pc = "collaborator_threw" => PromiseState = "rejected"

\* a timer of the chain is set or its callback is running: later stages will run
ChainAlive == pc \in {"clean", "link", "keys", "metrics", "cohort", "sales"}

\* C24: after the progress callback has thrown at one of its invocations the
\* promise is not rejected, and either the chain of stages is still going or
\* the promise is resolved with the result.
C24_CallbackFailureNotPropagated ==
  pc \in {"rejected", "callback_threw"} =>
    /\ PromiseState # "rejected"
    /\ ChainAlive \/ PromiseState = "resolved"

\* C25 as stated: each percentage reported is greater than the one reported
\* before it, the first is 5, and the last of a resolved run is 100.
C25_ProgressStrictlyIncreasing_AsStated ==
  /\ \A i \in 1..(Len(progressLog) - 1) : progressLog[i] < progressLog[i + 1]
  /\ progressLog # <<>> => progressLog[1] = 5
  /\ Done => progressLog[Len(progressLog)] = 100

\* C25 amended: the percentages reported never decrease, the first is 5, and a
\* resolved run has reported 5, 20, 40, 60, then 80 once for every per-staff
\* cohort it emitted (not at all when it emitted none), then 100.
C25_ProgressNeverDecreases ==
  /\ \A i \in 1..(Len(progressLog) - 1) : progressLog[i] <= progressLog[i + 1]
  /\ progressLog # <<>> => progressLog[1] = 5
  /\ pc # "start" => progressLog # <<>>
  /\ Done =>
       LET n == Len(StaffCohorts(processedData))
       IN progressLog = <<5, 20, 40, 60>> \o [i \in 1..n |-> 80] \o <<100>>

\* a resolved run that emitted two per-staff cohorts and reported 80 twice
C25_Witness ==
  /\ Done
  /\ Len(StaffCohorts(processedData)) = 2
  /\ progressLog = <<5, 20, 40, 60, 80, 80, 100>>

(***************************************************************************)
(* Fault-free runs whose timers fire: each setTimeout callback of the      *)
(* chain eventually runs, and a running callback goes on to its end.       *)
(***************************************************************************)
SpecLive == InitLinkage /\ [][Next]_vars /\ WF_vars(Next)

\* the changes of stage a run may make
StageOrder ==
  { <<"start", "clean">>, <<"clean", "link">>, <<"link", "keys">>,
    <<"keys", "metrics">>, <<"metrics", "cohort">>, <<"cohort", "sales">>,
    <<"sales", "cohort">>, <<"cohort", "done">> }

\* C26: the run changes stage only along normalize, link identities, enumerate
\* keys, compute cohorts and rollups; the output of a stage is written only
\* while that stage runs, after its predecessor; the promise is resolved only
\* after 100 has been reported, is never resolved a second time, and is
\* eventually resolved.
C26_StagesInOrderThenResolveOnce ==
  /\ [][/\ pc' # pc => <<pc, pc'>> \in StageOrder
        /\ cleaned' # cleaned => pc = "clean"
        /\ enrichedNewData' # enrichedNewData => pc = "link"
        /\ keys' # keys => pc = "keys"
        /\ processedData' # processedData => pc \in {"metrics", "sales", "cohort"}
        /\ result # None => result' = result]_vars
  /\ [](result # None =>
          /\ pc = "done"
          /\ progressLog[Len(progressLog)] = 100)
  /\ <>(result # None)

\* a resolved run that went through a cohort and its rollup
C26_Witness ==
  /\ pc = "done"
  /\ result # None
  /\ Len(result[1].processedData) >= 2
  /\ progressLog[Len(progressLog)] = 100

(***************************************************************************)
(* The emitted cohorts after a later cohort is accumulated.                *)
(***************************************************************************)
\* the five channel counts of a cohort record, in chart order
OwnSources(r) == <<r.trials, r.referrals, r.hosted, r.influencerSignups, r.others>>

\* C27: accumulating a cohort into its rollup leaves the per-staff cohort
\* records already emitted as they were, and every per-staff cohort record's
\* clientsBySource carries that cohort's own trials, referrals, hosted,
\* influencer sign-ups and others.
C27_AccumulationLeavesEmittedCohorts ==
  /\ \A i \in 1..Len(processedData) :
       ~IsRollup(processedData[i])
         => processedData[i].clientsBySource = OwnSources(processedData[i])
  /\ (result # None) =>
       \A i \in 1..Len(result[1].processedData) :
         ~IsRollup(result[1].processedData[i])
           => result[1].processedData[i].clientsBySource =
                OwnSources(result[1].processedData[i])

\* C28: in every emitted per-staff cohort the emails of convertedClientDetails
\* are exactly the members whose new-client detail has status converted, each
\* of them once, and no email of a non-member.
C28_ConvertedDetailsAreConvertedMembers ==
  \A i \in 1..Len(processedData) :
    ~IsRollup(processedData[i]) =>
      LET c == processedData[i]
          d == c.convertedClientDetails
      IN /\ DetailEmails(d) = ConvertedMembers(c)
         /\ \A x, y \in 1..Len(d) : d[x].email = d[y].email => x = y
         /\ DetailEmails(d) \subseteq DetailEmails(c.newClientDetails)

\* C29: in every emitted per-staff cohort, a converted-client detail of a member
\* carries the first-purchase date and item of that member's new-client detail.
C29_ConvertedDetailAgreesWithNewClientDetail ==
  \A i \in 1..Len(processedData) :
    ~IsRollup(processedData[i]) =>
      LET c == processedData[i]
      IN \A x \in 1..Len(c.convertedClientDetails) :
           \A y \in 1..Len(c.newClientDetails) :
             c.convertedClientDetails[x].email = c.newClientDetails[y].email =>
               /\ c.newClientDetails[y].firstPurchaseDate =
                    Some(c.convertedClientDetails[x].firstPurchaseDate)
               /\ c.newClientDetails[y].firstPurchaseItem =
                    Some(c.convertedClientDetails[x].firstPurchaseItem)

(***************************************************************************)
(* Runs with three intake records at one location and period, taught by    *)
(* one or two staff members.                                               *)
(***************************************************************************)
StudioIntakes ==
  {nd \in SeqsUpTo(LinkageIntakeUniverse, MaxNew + 1) : DistinctEmails(nd) /\ Len(nd) = 3}

InitStudio == InitWith(StudioIntakes, {"T1", "T2"}, {<<>>}, LinkageSales)

SpecStudio == InitStudio /\ [][Next]_vars

\* the per-staff cohorts accumulated into a rollup: those of its location key
CohortsSummedBy(pd, rollup) ==
  SelectSeq(StaffCohorts(pd), LAMBDA r : r.location = rollup.location)

RECURSIVE ConcatExcluded(_)
ConcatExcluded(cohorts) ==
  IF cohorts = <<>> THEN <<>>
  ELSE cohorts[1].excludedClientDetails \o ConcatExcluded(Tail(cohorts))

\* C30: in the result, a rollup's excludedClientDetails is the concatenation of
\* the excluded-client lists of the cohorts it sums, and holds no excluded
\* record twice.
C30_RollupExcludedIsConcatenation ==
  Done =>
    \A i \in 1..Len(processedData) :
      IsRollup(processedData[i]) =>
        LET r == processedData[i]
            x == r.excludedClientDetails
        IN /\ x = ConcatExcluded(CohortsSummedBy(processedData, r))
           /\ \A m, n \in 1..Len(x) : x[m].Email = x[n].Email => m = n
====
